---- MODULE Spec2Model ----
(***************************************************************************)
(* Personal Boardroom: the completion client's retry wrapper               *)
(* (server/services/llm-client.js) and the board meeting orchestrator      *)
(* (server/services/orchestrator.js) with the session routes that drive    *)
(* it (server/routes/sessions.js).                                         *)
(*                                                                         *)
(* JavaScript values are modelled as records tagged by "kind".  A text the  *)
(* code searches (an error message, the text of a provider response) is a  *)
(* sequence of one-character strings, so that String.includes and the      *)
(* regular expressions of parseResponse are real searches.  A text the     *)
(* code renders from a template (the memo text, the synthesis input) is a  *)
(* sequence of lines, each line the sequence of the literal and            *)
(* interpolated pieces the template puts on it.                            *)
(***************************************************************************)
EXTENDS Integers, Sequences, FiniteSets, TLC

(***************************************************************************)
(* Bounds of the model.                                                    *)
(***************************************************************************)
\* largest retry count a deployment configures or a caller passes
MaxAttempts == 3
\* most segments (prose, code blocks) in the text of a probed response
MaxSegments == 2
\* most items in the output array of a probed response
MaxItems == 2

(***************************************************************************)
(* JavaScript values.                                                      *)
(***************************************************************************)
JsUndefined == [kind |-> "undefined"]
JsNull == [kind |-> "null"]
Num(n) == [kind |-> "number", v |-> n]
\* a string value of a request body, a parsed JSON document or a table column
Str(s) == [kind |-> "string", v |-> s]
\* a string value the code searches: its characters
Txt(t) == [kind |-> "text", v |-> t]
Arr(items) == [kind |-> "array", v |-> items]

\* the truthiness test of x || d, x ? a : b and if (x)
Truthy(x) ==
  CASE x.kind \in {"undefined", "null"} -> FALSE
    [] x.kind = "string" -> x.v # ""
    [] x.kind = "text" -> x.v # <<>>
    [] x.kind = "number" -> x.v # 0
    [] OTHER -> TRUE

\* x || d
Or(x, d) == IF Truthy(x) THEN x ELSE d

\* x || 0 for a usage counter: undefined, null and 0 are falsy
OrZero(x) == IF x.kind = "number" /\ x.v # 0 THEN x.v ELSE 0

\* maxRetries ?? this.retryAttempts: only null and undefined fall through
Coalesce(x, d) == IF x.kind \in {"undefined", "null"} THEN d ELSE x.v

RECURSIVE Pow2(_)
\* Math.pow(2, n) for a non-negative integer n
Pow2(n) == IF n = 0 THEN 1 ELSE 2 * Pow2(n - 1)

\* String.prototype.includes on texts
Includes(s, pat) ==
  \E i \in 1..(Len(s) - Len(pat) + 1) : SubSeq(s, i, i + Len(pat) - 1) = pat

DigitChar(d) == <<"0", "1", "2", "3", "4", "5", "6", "7", "8", "9">>[d + 1]

\* the decimal text of a three-digit HTTP status in a template literal
StatusText(status) ==
  <<DigitChar(status \div 100), DigitChar((status \div 10) % 10), DigitChar(status % 10)>>

(***************************************************************************)
(* The provider: what one fetch of /responses can come back with.          *)
(***************************************************************************)
\* response bodies of a non-ok response (response.text())
BodyDown == <<"d", "o", "w", "n">>
BodyTry4s == <<"t", "r", "y", " ", "(", "4", "s", ")">>

\* the message of the error fetch throws when the network fails or times out
FetchFailed == <<"f", "e", "t", "c", "h", " ", "f", "a", "i", "l", "e", "d">>

\* the usage field of an ok response; every counter may be absent
Usage(i, o, d, t) ==
  [kind |-> "object", input_tokens |-> i, output_tokens |-> o,
   output_tokens_details |-> d, total_tokens |-> t]

Details(r) == [kind |-> "object", reasoning_tokens |-> r]

\* the flattened output_text of an ok response: the JSON of an object, or
\* text that is not JSON
ObjectText == <<"{", "}">>
PlainText == <<"n", "o">>
\* the JSON of an array
ArrayText == <<"[", "]">>

\* the body of an ok response: output_text and output may each be absent
ResponseData(outputText, output, usage) ==
  [output_text |-> outputText, output |-> output, usage |-> usage, id |-> "resp"]

\* an ok response body that carries its text in output_text
OkData(text, usage) == ResponseData(Txt(text), JsUndefined, usage)

\* an item of data.output, and a block of an item's content
OutputItem(type, content) == [kind |-> "object", type |-> type, content |-> content]
ContentBlock(type, text) == [kind |-> "object", type |-> type, text |-> text]

\* the object ObjectText is the JSON of: a board member's answer
ParsedObject ==
  [kind |-> "object", position |-> Str("approve"),
   top_reasons |-> Arr(<<"cheap", "fast">>), top_risks |-> Arr(<<"churn">>),
   confidence |-> Str("high")]

\* the array ArrayText is the JSON of
ParsedArray == Arr(<<>>)

\* o.f of a parsed document: undefined when o has no property f
Get(o, f) == IF f \in DOMAIN o THEN o[f] ELSE JsUndefined

HttpOk(d) == [kind |-> "ok", data |-> d]
HttpError(s, b) == [kind |-> "http", status |-> s, body |-> b]
FetchThrows(m) == [kind |-> "throw", message |-> m]

\* a failure that carries a 4xx-class status
Is4xx(out) == out.kind = "http" /\ out.status \in 400..499

\* a failure that does not carry a 4xx-class status (5xx, timeout, network)
IsNon4xxFailure(out) == out.kind # "ok" /\ ~Is4xx(out)

(***************************************************************************)
(* LLMClient (server/services/llm-client.js).                              *)
(***************************************************************************)
\* retry_attempts of config.json a deployment may set: absent, or a count
ConfigRetryAttempts == {JsUndefined} \cup {Num(n) : n \in 0..MaxAttempts}

\* this.retryAttempts = personasConfig.retry_attempts || 3
RetryAttemptsOf(cfg) == IF cfg.kind = "number" /\ cfg.v # 0 THEN cfg.v ELSE 3

\* the settings of a client that bear on a request: this.reasoningEffort,
\* this.verbosity and this.reasoningOverrides (config reasoning_overrides || {})
Client(reasoningEffort, verbosity, overrides) ==
  [reasoningEffort |-> reasoningEffort, verbosity |-> verbosity,
   reasoningOverrides |-> Or(overrides, [kind |-> "object"])]

\* the options argument of complete(); every option may be absent
Options(personaId, reasoningEffort, verbosity, includeReasoning, jsonSchema) ==
  [personaId |-> personaId, reasoningEffort |-> reasoningEffort, verbosity |-> verbosity,
   includeReasoning |-> includeReasoning, jsonSchema |-> jsonSchema]

\* getReasoningEffort(personaId)
getReasoningEffort(client, personaId) ==
  Or(IF personaId \in DOMAIN client.reasoningOverrides
       THEN client.reasoningOverrides[personaId] ELSE JsUndefined,
     client.reasoningEffort)

\* ResolveEffort letting the persona override win over options.reasoningEffort
ResolveEffort_PersonaFirst(client, options) ==
  IF Truthy(options.personaId) THEN getReasoningEffort(client, options.personaId.v)
  ELSE IF options.reasoningEffort.kind # "undefined" THEN options.reasoningEffort
  ELSE client.reasoningEffort

\* the reasoningEffort complete() destructures from options: the default
\* applies only when the option is undefined
ResolveEffort(client, options) ==
  IF options.reasoningEffort.kind # "undefined" THEN options.reasoningEffort
  ELSE IF Truthy(options.personaId) THEN getReasoningEffort(client, options.personaId.v)
  ELSE client.reasoningEffort

\* the part of the request body complete() builds from its options
RequestBody(client, options) ==
  [reasoning |->
     [effort |-> ResolveEffort(client, options),
      summary |-> IF Truthy(options.includeReasoning) THEN Str("auto") ELSE JsUndefined],
   text |->
     [verbosity |-> IF options.verbosity.kind # "undefined" THEN options.verbosity
                    ELSE client.verbosity,
      format |-> IF Truthy(options.jsonSchema)
                   THEN [kind |-> "object", type |-> "json_schema", strict |-> TRUE]
                   ELSE JsUndefined]]

\* an Error object; reading a property it was not given yields undefined
JsError(name, message) ==
  [kind |-> "error", name |-> name, message |-> message,
   phase |-> JsUndefined, personaId |-> JsUndefined]

ErrorPrefix ==
  <<"O", "p", "e", "n", "A", "I", " ", "R", "e", "s", "p", "o", "n", "s", "e", "s",
    " ", "A", "P", "I", " ", "e", "r", "r", "o", "r", " ", "(">>

\* the error complete() throws for a fetch that did not produce an ok response
ErrorOf(out) ==
  IF out.kind = "http"
    THEN JsError("Error", ErrorPrefix \o StatusText(out.status) \o <<")", ":", " ">> \o out.body)
    ELSE JsError("TypeError", out.message)

\* the characters String.prototype.trim removes
Whitespace == {" ", "\n", "\t"}

RECURSIVE TrimStart(_)
TrimStart(t) == IF t # <<>> /\ Head(t) \in Whitespace THEN TrimStart(Tail(t)) ELSE t

RECURSIVE TrimEnd(_)
TrimEnd(t) ==
  IF t # <<>> /\ t[Len(t)] \in Whitespace THEN TrimEnd(SubSeq(t, 1, Len(t) - 1)) ELSE t

\* t.trim()
TrimText(t) == TrimEnd(TrimStart(t))

\* the index of the first occurrence of pat in s at or after from, 0 if none
IndexOf(s, pat, from) ==
  LET hits == {i \in from..(Len(s) - Len(pat) + 1) : SubSeq(s, i, i + Len(pat) - 1) = pat}
  IN IF hits = {} THEN 0 ELSE CHOOSE i \in hits : \A j \in hits : i <= j

\* the backquote character, which a TLA+ string cannot hold
Tick == "tick"

\* the fence that opens or closes a code block, and the fence labelled json
Backticks == <<Tick, Tick, Tick>>
BackticksJson == Backticks \o <<"j", "s", "o", "n">>

\* s.match(/<open>\n?([\s\S]*?)\n?<fence>/): null, or the match with its
\* group 1.  The match starts at the first occurrence of open; the lazy group
\* ends before the first fence after it, less one newline in front of it
FenceMatch(s, open) ==
  LET i == IndexOf(s, open, 1)
      p == i + Len(open)
      start == IF p <= Len(s) /\ s[p] = "\n" THEN p + 1 ELSE p
      q == IndexOf(s, Backticks, start)
      end == IF q - 1 >= start /\ s[q - 1] = "\n" THEN q - 2 ELSE q - 1
  IN IF i = 0 \/ q = 0 THEN JsNull
     ELSE [kind |-> "match", group |-> SubSeq(s, start, end)]

\* the text parseResponse hands to JSON.parse
LocateJson(rawText) ==
  LET jsonMatch == Or(FenceMatch(rawText, BackticksJson), FenceMatch(rawText, Backticks))
  IN IF Truthy(jsonMatch) THEN TrimText(jsonMatch.group) ELSE TrimText(rawText)

SyntaxError == JsError("SyntaxError", <<"U", "n", "e", "x", "p", "e", "c", "t", "e", "d">>)

\* JSON.parse(t): the value, or the SyntaxError it throws
JsonParse(t) ==
  IF t = ObjectText THEN ParsedObject
  ELSE IF t = ArrayText THEN ParsedArray
  ELSE SyntaxError

RECURSIVE BlocksText_AnyType(_)
\* BlocksText appending the text of every block, whatever its type
BlocksText_AnyType(content) ==
  IF content = <<>> THEN <<>>
  ELSE LET c == Head(content)
       IN (IF Truthy(c.text) THEN c.text.v ELSE <<>>) \o BlocksText_AnyType(Tail(content))

\* content.text || "" appended for every textual block of an item's content
RECURSIVE BlocksText(_)
BlocksText(content) ==
  IF content = <<>> THEN <<>>
  ELSE LET c == Head(content)
       IN (IF c.type \in {"output_text", "text"} /\ Truthy(c.text) THEN c.text.v ELSE <<>>)
            \o BlocksText(Tail(content))

\* the loop over data.output: only message items that have a content
RECURSIVE ItemsText(_)
ItemsText(output) ==
  IF output = <<>> THEN <<>>
  ELSE LET item == Head(output)
       IN (IF item.type = "message" /\ Truthy(item.content)
             THEN BlocksText(item.content.v) ELSE <<>>)
            \o ItemsText(Tail(output))

\* rawText: data.output_text, or else what the output array holds
RawText(data) ==
  LET rawText == IF Truthy(data.output_text) THEN data.output_text.v ELSE <<>>
  IN IF rawText = <<>> /\ data.output.kind = "array" THEN ItemsText(data.output.v)
     ELSE rawText

\* Tokens reading the reasoning count from the output counter
Tokens_ReasoningFromOutput(data) ==
  LET u == data.usage
  IN [input |-> IF u.kind = "object" THEN OrZero(u.input_tokens) ELSE 0,
      output |-> IF u.kind = "object" THEN OrZero(u.output_tokens) ELSE 0,
      reasoning |-> IF u.kind = "object" THEN OrZero(u.output_tokens) ELSE 0,
      total |-> IF u.kind = "object" THEN OrZero(u.total_tokens) ELSE 0]

\* the token counts reported for a call
Tokens(data) ==
  LET u == data.usage
  IN [input |-> IF u.kind = "object" THEN OrZero(u.input_tokens) ELSE 0,
      output |-> IF u.kind = "object" THEN OrZero(u.output_tokens) ELSE 0,
      reasoning |-> IF u.kind = "object" /\ u.output_tokens_details.kind = "object"
                      THEN OrZero(u.output_tokens_details.reasoning_tokens) ELSE 0,
      total |-> IF u.kind = "object" THEN OrZero(u.total_tokens) ELSE 0]

\* ParseJson without the try and catch around JSON.parse
ParseJson_NoCatch(rawText, expectJson) ==
  IF expectJson /\ rawText # <<>> THEN JsonParse(LocateJson(rawText)) ELSE JsNull

\* parsed: null unless a schema was given and the located text is JSON; the
\* catch swallows the SyntaxError
ParseJson(rawText, expectJson) ==
  IF expectJson /\ rawText # <<>>
    THEN LET v == JsonParse(LocateJson(rawText))
         IN IF v.kind = "error" THEN JsNull ELSE v
    ELSE JsNull

\* parseResponse(data, expectJson)
parseResponse(data, expectJson) ==
  LET rawText == RawText(data)
  IN [kind |-> "outcome", parsed |-> ParseJson(rawText, expectJson), raw |-> rawText,
      tokens |-> Tokens(data), responseId |-> data.id]

\* one activation of completeWithRetry: where it is suspended, its locals
\* attempt and lastError, the pending backoff timer, and what it settled with
NoCall ==
  [st |-> "none", attempt |-> 0, lastError |-> JsUndefined, delay |-> 0,
   value |-> JsUndefined]

InFlight(attempt, lastError) ==
  [st |-> "inflight", attempt |-> attempt, lastError |-> lastError, delay |-> 0,
   value |-> JsUndefined]

BackingOff(attempt, lastError, ms) ==
  [st |-> "backoff", attempt |-> attempt, lastError |-> lastError, delay |-> ms,
   value |-> JsUndefined]

\* a settled activation: its locals are gone, only the value or error remains
Returned(v) ==
  [st |-> "returned", attempt |-> 0, lastError |-> JsUndefined, delay |-> 0, value |-> v]

Raised(e) ==
  [st |-> "raised", attempt |-> 0, lastError |-> JsUndefined, delay |-> 0, value |-> e]

Settled(c) == c.st \in {"returned", "raised"}

\* DontRetry looking for the wrong status class
DontRetry_Wrong5xx(error) == Includes(error.message, <<"(", "5">>)

\* error.message.includes('(4')
DontRetry(error) == Includes(error.message, <<"(", "4">>)

\* BackoffMs with the exponent one too small
BackoffMs_FromOneSecond(attempt) == Pow2(attempt - 1) * 1000

\* the delay of the backoff after failed attempt number attempt, in ms
BackoffMs(attempt) == Pow2(attempt) * 1000

\* StartCall making its first attempt before it looks at the budget
StartCall_AtLeastOnce(retries) == InFlight(1, JsUndefined)

\* completeWithRetry up to its first suspension: the first fetch is issued,
\* or the loop body never runs and lastError (undefined) is thrown
StartCall(retries) ==
  IF 1 <= retries THEN InFlight(1, JsUndefined) ELSE Raised(JsUndefined)

\* OnOutcome keeping the first error in lastError instead of the latest
OnOutcome_FirstError(c, retries, out, expectJson) ==
  IF out.kind = "ok"
    THEN Returned(parseResponse(out.data, expectJson))
    ELSE LET error == ErrorOf(out)
             lastError == IF c.lastError.kind = "undefined" THEN error ELSE c.lastError
         IN IF DontRetry(error) THEN Raised(error)
            ELSE IF c.attempt < retries
              THEN BackingOff(c.attempt, lastError, BackoffMs(c.attempt))
              ELSE Raised(lastError)

\* OnOutcome going round the loop once more than the budget allows
OnOutcome_OneMore(c, retries, out, expectJson) ==
  IF out.kind = "ok"
    THEN Returned(parseResponse(out.data, expectJson))
    ELSE LET error == ErrorOf(out)
         IN IF DontRetry(error) THEN Raised(error)
            ELSE IF c.attempt <= retries
              THEN BackingOff(c.attempt, error, BackoffMs(c.attempt))
              ELSE Raised(error)

\* the fetch of attempt c.attempt came back with out
OnOutcome(c, retries, out, expectJson) ==
  IF out.kind = "ok"
    THEN Returned(parseResponse(out.data, expectJson))
    ELSE LET error == ErrorOf(out)
             lastError == error
         IN IF DontRetry(error) THEN Raised(error)
            ELSE IF c.attempt < retries
              THEN BackingOff(c.attempt, lastError, BackoffMs(c.attempt))
              ELSE Raised(lastError)

\* the backoff timer fired: attempt++ and the next fetch is issued
OnTimer(c) == InFlight(c.attempt + 1, c.lastError)

(***************************************************************************)
(* State.                                                                  *)
(***************************************************************************)
VARIABLES
  retryAttempts,  \* llm.retryAttempts, fixed when the client is constructed
  prompts,        \* the personas whose prompt file exists in server/prompts
  sessions,       \* table sessions: the status of each session id, "none" if no row
  memos,          \* table memos, in insertion order
  responses,      \* table responses, in insertion order
  runs,           \* the activations of POST /:id/run, i.e. of runBoardMeeting
  harness,        \* a direct caller of completeWithRetry: its arguments and the provider stub
  w,              \* the activation of completeWithRetry the harness started
  invoked,        \* how many times the harness's activation has called complete()
  sleeps,         \* the backoff delays the harness's activation has started, in order
  probe           \* a direct call of parseResponse or of a rendering function

vars ==
  <<retryAttempts, prompts, sessions, memos, responses, runs, harness, w, invoked, sleeps,
    probe>>

dbVars == <<sessions, memos, responses>>
harnessVars == <<harness, w, invoked, sleeps, probe>>

(***************************************************************************)
(* A direct caller of completeWithRetry against a scripted provider stub.  *)
(***************************************************************************)
\* the outcomes the stub is scripted with
StubOutcomes ==
  { HttpOk(OkData(ObjectText, Usage(Num(1), Num(1), Details(Num(1)), Num(2)))),
    HttpOk(OkData(PlainText, JsUndefined)),
    HttpError(400, BodyDown),
    HttpError(429, BodyTry4s),
    HttpError(500, BodyDown),
    HttpError(503, BodyDown),
    HttpError(503, BodyTry4s),
    FetchThrows(FetchFailed) }

\* the stub answers as many calls as any retry count of the model can make
StubLen == IF MaxAttempts > 3 THEN MaxAttempts ELSE 3

\* the maxRetries argument: null (the default), or a count
MaxRetriesArgs == {JsNull} \cup {Num(n) : n \in 0..MaxAttempts}

\* const retries = maxRetries ?? this.retryAttempts
Retries == Coalesce(harness.maxRetries, retryAttempts)

NoHarness == [maxRetries |-> JsNull, expectJson |-> FALSE, stub |-> <<>>]

\* no direct call of a pure function is being made
NoProbe == [fn |-> "none"]

\* the harness calls completeWithRetry
WStart ==
  /\ w.st = "none"
  /\ harness.stub # <<>>
  /\ w' = StartCall(Retries)
  /\ invoked' = IF w'.st = "inflight" THEN 1 ELSE 0
  /\ UNCHANGED <<retryAttempts, prompts, dbVars, runs, harness, sleeps, probe>>

\* the stub answers the fetch in flight
WRespond ==
  /\ w.st = "inflight"
  /\ w' = OnOutcome(w, Retries, harness.stub[invoked], harness.expectJson)
  /\ sleeps' = IF w'.st = "backoff" THEN Append(sleeps, w'.delay) ELSE sleeps
  /\ UNCHANGED <<retryAttempts, prompts, dbVars, runs, harness, invoked, probe>>

\* the backoff timer of the harness's activation fires
WTimer ==
  /\ w.st = "backoff"
  /\ w' = OnTimer(w)
  /\ invoked' = invoked + 1
  /\ UNCHANGED <<retryAttempts, prompts, dbVars, runs, harness, sleeps, probe>>

(***************************************************************************)
(* The orchestrator (server/services/orchestrator.js) and the session      *)
(* routes (server/routes/sessions.js).                                     *)
(***************************************************************************)
\* boardPersonas, in the order of the array
Board == <<"operator", "finance", "craft-expert", "contrarian">>
BoardIds == {Board[i] : i \in 1..Len(Board)}
AllPersonas == {"secretary", "strategist"} \cup BoardIds

\* the session ids and run requests of the model
SessionIds == {"A"}
RunIds == {1}

\* an object without properties: the {} of x || {}
EmptyObject == [kind |-> "object"]

\* the JSON text JSON.stringify(v) writes into a column, and JSON.parse of a
\* column, which falls back to the text given for an empty column
JsonStringify(v) == [kind |-> "json", of |-> v]
ParseColumn(col, fallback) == IF col.kind = "json" THEN col.of ELSE fallback

\* a memo as a client posts it; every property but decision_required may be
\* absent.  Lists hold plain strings, options hold strings or objects
MemoBody(context, decision, options, constraints, metrics, questions) ==
  [kind |-> "object", context |-> context, decision_required |-> decision,
   options |-> options, constraints |-> constraints, success_metrics |-> metrics,
   questions_for_board |-> questions]

Constraints(time, budget, risk, politics) ==
  [kind |-> "object", time |-> time, budget |-> budget, risk_tolerance |-> risk,
   politics |-> politics]

Option(description) == [kind |-> "object", description |-> description]

\* the memo bodies a client posts
MemoBodies ==
  { MemoBody(Arr(<<"runway is short">>), Str("take the offer"),
             Arr(<<Option(Str("accept")), Str("decline")>>),
             Constraints(Str("two weeks"), JsUndefined, JsUndefined, JsUndefined),
             JsUndefined, Arr(<<"what breaks first">>)) }

\* the row POST /:id/memo inserts
MemoRow(s, memo) ==
  [session_id |-> s,
   context |-> JsonStringify(Or(Get(memo, "context"), Arr(<<>>))),
   decision_required |-> Get(memo, "decision_required"),
   options |-> JsonStringify(Or(Get(memo, "options"), Arr(<<>>))),
   constraints |-> JsonStringify(Or(Get(memo, "constraints"), EmptyObject)),
   success_metrics |-> JsonStringify(Or(Get(memo, "success_metrics"), Arr(<<>>))),
   questions_for_board |-> JsonStringify(Or(Get(memo, "questions_for_board"), Arr(<<>>))),
   attachments |-> JsonStringify(Or(Get(memo, "attachments"), Arr(<<>>)))]

\* memoData: the columns of the memo row, parsed
MemoData(row) ==
  [kind |-> "object",
   context |-> ParseColumn(row.context, Arr(<<>>)),
   decision_required |-> row.decision_required,
   options |-> ParseColumn(row.options, Arr(<<>>)),
   constraints |-> ParseColumn(row.constraints, EmptyObject),
   success_metrics |-> ParseColumn(row.success_metrics, Arr(<<>>)),
   questions_for_board |-> ParseColumn(row.questions_for_board, Arr(<<>>))]

\* a line of a rendered text: an interpolation that is empty adds no piece
Line(pieces) == SelectSeq(pieces, LAMBDA piece : piece # "")

\* lines.join("\n"): the lines themselves, one empty line for an empty array
JoinLines(lines) == IF lines = <<>> THEN << <<>> >> ELSE lines

RECURSIVE TrimLinesStart(_)
TrimLinesStart(text) ==
  IF text # <<>> /\ Head(text) = <<>> THEN TrimLinesStart(Tail(text)) ELSE text

RECURSIVE TrimLinesEnd(_)
TrimLinesEnd(text) ==
  IF text # <<>> /\ text[Len(text)] = <<>>
    THEN TrimLinesEnd(SubSeq(text, 1, Len(text) - 1)) ELSE text

\* text.trim() of a rendered text: the empty lines at both ends go
TrimLines(text) == TrimLinesEnd(TrimLinesStart(text))

\* ${x} in a template literal, for a string or an absent value
Interpolate(x) ==
  CASE x.kind = "string" -> x.v
    [] x.kind = "undefined" -> "undefined"
    [] x.kind = "null" -> "null"
    [] OTHER -> "[object Object]"

\* o.description || o, interpolated
OptionText(o) ==
  LET description == IF o.kind = "object" THEN Get(o, "description") ELSE JsUndefined
  IN Interpolate(Or(description, o))

\* formatMemoForPrompt(memo)
formatMemoForPrompt(memo) ==
  LET context == memo.context.v
      options == memo.options.v
      metrics == memo.success_metrics.v
      questions == memo.questions_for_board.v
      c == memo.constraints
      politics == Get(c, "politics")
  IN TrimLines(
       << <<>>,
          <<"## Board Memo">>,
          <<>>,
          <<"### Context">> >>
       \o JoinLines([i \in 1..Len(context) |-> Line(<<"- ", context[i]>>)])
       \o << <<>>,
             <<"### Decision Required">>,
             Line(<<Interpolate(memo.decision_required)>>),
             <<>>,
             <<"### Options">> >>
       \o JoinLines([i \in 1..Len(options) |->
                       Line(<<ToString(i), ". ", OptionText(options[i])>>)])
       \o << <<>>,
             <<"### Constraints">>,
             Line(<<"- Time: ", Interpolate(Or(Get(c, "time"), Str("Not specified")))>>),
             Line(<<"- Budget: ", Interpolate(Or(Get(c, "budget"), Str("Not specified")))>>),
             Line(<<"- Risk Tolerance: ",
                    Interpolate(Or(Get(c, "risk_tolerance"), Str("Medium")))>>),
             IF Truthy(politics)
               THEN Line(<<"- Political considerations: ", Interpolate(politics)>>)
               ELSE <<>>,
             <<>>,
             <<"### Success Metrics">> >>
       \o JoinLines([i \in 1..Len(metrics) |-> Line(<<"- ", metrics[i]>>)])
       \o << <<>>,
             <<"### Questions for the Board">> >>
       \o JoinLines([i \in 1..Len(questions) |->
                       Line(<<ToString(i), ". ", questions[i]>>)])
       \o << <<>> >>)

\* persona.toUpperCase()
ToUpperCase(persona) ==
  CASE persona = "operator" -> "OPERATOR"
    [] persona = "finance" -> "FINANCE"
    [] persona = "craft-expert" -> "CRAFT-EXPERT"
    [] persona = "contrarian" -> "CONTRARIAN"

RECURSIVE JoinPieces(_, _)
\* items.join(sep), as the pieces of one line
JoinPieces(items, sep) ==
  IF items = <<>> THEN <<>>
  ELSE IF Len(items) = 1 THEN items
  ELSE <<Head(items), sep>> \o JoinPieces(Tail(items), sep)

\* the block formatSynthesisInput renders for one entry of boardResults
ReviewerBlock(entry) ==
  LET p == Or(entry.result.parsed, EmptyObject)
  IN << <<>>,
        Line(<<"### ", ToUpperCase(entry.persona)>>),
        Line(<<"- **Position:** ", Interpolate(Or(Get(p, "position"), Str("N/A")))>>),
        Line(<<"- **Top Reasons:** ">>
               \o JoinPieces(Or(Get(p, "top_reasons"), Arr(<<>>)).v, "; ")),
        Line(<<"- **Top Risks:** ">>
               \o JoinPieces(Or(Get(p, "top_risks"), Arr(<<>>)).v, "; ")),
        Line(<<"- **Confidence:** ", Interpolate(Or(Get(p, "confidence"), Str("N/A")))>>),
        <<>> >>

RECURSIVE BoardSummary(_)
\* boardResults.map(...).join("\n")
BoardSummary(boardResults) ==
  IF boardResults = <<>> THEN << <<>> >>
  ELSE IF Len(boardResults) = 1 THEN ReviewerBlock(Head(boardResults))
  ELSE ReviewerBlock(Head(boardResults)) \o BoardSummary(Tail(boardResults))

\* formatSynthesisInput(memo, boardResults)
formatSynthesisInput(memo, boardResults) ==
  TrimLines(
    << <<>>,
       <<"## Original Memo">> >>
    \o formatMemoForPrompt(memo)
    \o << <<>>,
          <<"---">>,
          <<>>,
          <<"## Board Member Responses">> >>
    \o BoardSummary(boardResults)
    \o << <<>>,
          <<"---">>,
          <<>>,
          <<"Please synthesize these perspectives into a single, coherent recommendation.">>,
          <<>> >>)

\* the responses the provider gives to the calls of a run
RunOutcomes ==
  { HttpOk(OkData(ObjectText, Usage(Num(1), Num(1), Details(Num(1)), Num(2)))),
    HttpOk(OkData(PlainText, JsUndefined)),
    HttpError(400, BodyDown),
    HttpError(503, BodyDown),
    HttpError(503, BodyTry4s) }

\* options.jsonSchema of the call made for a persona: the secretary has none
ExpectJson(p) == p # "secretary"

\* an activation of runBoardMeeting together with the route handler awaiting it
NoRun ==
  [pc |-> "idle", sessionId |-> "none", memoData |-> JsUndefined, memoText |-> <<>>,
   calls |-> [p \in AllPersonas |-> NoCall],
   inputs |-> [p \in AllPersonas |-> JsUndefined], boardResults |-> <<>>,
   synthesisInput |-> <<>>, outcome |-> JsUndefined, http |-> JsUndefined]

\* db.prepare('SELECT * FROM memos WHERE session_id = ?').get(sessionId)
GetMemo(tbl, s) ==
  LET idx == {i \in 1..Len(tbl) : tbl[i].session_id = s}
  IN IF idx = {} THEN JsUndefined
     ELSE [kind |-> "row", row |-> tbl[CHOOSE i \in idx : \A j \in idx : i <= j]]

\* SetStatus as an UPDATE without its WHERE clause: every session row changes
SetStatus_EveryRow(tbl, s, status) ==
  [t \in DOMAIN tbl |-> IF tbl[t] # "none" THEN status ELSE tbl[t]]

\* UPDATE sessions SET status = ? WHERE id = ?: no row, no change
SetStatus(tbl, s, status) ==
  IF tbl[s] # "none" THEN [tbl EXCEPT ![s] = status] ELSE tbl

\* loadPrompt(file) of a persona whose file is missing
NoPromptError == JsError("Error", <<"E", "N", "O", "E", "N", "T">>)

\* the row saveResponse inserts
ResponseRow(sessionId, personaId, result) ==
  LET parsed == Or(result.parsed, EmptyObject)
      recommendation == Get(parsed, "integrated_recommendation")
      decision == IF recommendation.kind \in {"undefined", "null"} THEN JsUndefined
                  ELSE Get(recommendation, "decision")
  IN [session_id |-> sessionId, persona_id |-> personaId,
      position |-> Or(Or(Get(parsed, "position"), decision), Str("")),
      top_reasons |-> JsonStringify(Or(Get(parsed, "top_reasons"), Arr(<<>>))),
      top_risks |-> JsonStringify(Or(Get(parsed, "top_risks"), Arr(<<>>))),
      recommended_modifications |->
        JsonStringify(Or(Get(parsed, "recommended_modifications"), Arr(<<>>))),
      validation_metrics |-> JsonStringify(Or(Get(parsed, "validation_metrics"), EmptyObject)),
      confidence |-> Or(Get(parsed, "confidence"), Str("medium")),
      raw_analysis |-> result.raw,
      tokens_used |-> result.tokens.total]

\* saveResponse as INSERT OR REPLACE on the pair of session and persona
saveResponse_Replace(tbl, sessionId, personaId, result) ==
  Append(SelectSeq(tbl, LAMBDA row :
                     row.session_id # sessionId \/ row.persona_id # personaId),
         ResponseRow(sessionId, personaId, result))

saveResponse(tbl, sessionId, personaId, result) ==
  Append(tbl, ResponseRow(sessionId, personaId, result))

\* SaveBoard leaving the loop after the first entry
SaveBoard_OnlyFirst(tbl, sessionId, results) ==
  IF results = <<>> THEN tbl
  ELSE saveResponse(tbl, sessionId, Head(results).persona, Head(results).result)

RECURSIVE SaveBoard(_, _, _)
\* for (const { persona, result } of boardResults) saveResponse(...)
SaveBoard(tbl, sessionId, results) ==
  IF results = <<>> THEN tbl
  ELSE SaveBoard(saveResponse(tbl, sessionId, Head(results).persona, Head(results).result),
                 sessionId, Tail(results))

RECURSIVE SumBoard(_)
\* boardResults.reduce((sum, r) => sum + r.result.tokens.total, 0)
SumBoard(results) ==
  IF results = <<>> THEN 0
  ELSE SumBoard(SubSeq(results, 1, Len(results) - 1))
         + results[Len(results)].result.tokens.total

\* TotalTokens leaving the synthesis call out of the sum
TotalTokens_NoSynthesis(secretaryResult, boardResults, strategistResult) ==
  secretaryResult.tokens.total + SumBoard(boardResults)

\* the totalTokens of a finished run
TotalTokens(secretaryResult, boardResults, strategistResult) ==
  secretaryResult.tokens.total + SumBoard(boardResults) + strategistResult.tokens.total

\* FailRun answering with what the run had gathered so far
FailRun_PartialResult(run, error) ==
  [run EXCEPT !.pc = "raised", !.outcome = error,
              !.http = [status |-> 500,
                        body |-> [error |-> error.message, board |-> run.boardResults]]]

\* runBoardMeeting rejects with error; the route's catch answers 500
FailRun(run, error) ==
  [run EXCEPT !.pc = "raised", !.outcome = error,
              !.http = [status |-> 500, body |-> [error |-> error.message]]]

\* BoardResults labelling every entry with the first persona
BoardResults_SamePersona(run) ==
  [i \in 1..Len(Board) |-> [persona |-> Board[1], result |-> run.calls[Board[i]].value]]

\* BoardResults listing the entries from the last persona to the first
BoardResults_Reversed(run) ==
  [i \in 1..Len(Board) |->
     [persona |-> Board[Len(Board) + 1 - i],
      result |-> run.calls[Board[Len(Board) + 1 - i]].value]]

\* the value Promise.all(boardPromises) fulfils with: one entry per persona,
\* in the order of boardPersonas
BoardResults(run) ==
  [i \in 1..Len(Board) |-> [persona |-> Board[i], result |-> run.calls[Board[i]].value]]

\* the reviewer whose promise rejected, if any (the earliest in array order
\* when several reject in the same synchronous stretch)
Rejected(run) == {i \in 1..Len(Board) : run.calls[Board[i]].st = "raised"}
FirstRejected(run) == Board[CHOOSE i \in Rejected(run) : \A j \in Rejected(run) : i <= j]

\* StartReview rendering the user message of the reviewers from the memo row
\* the table holds when PHASE 2 starts
StartReview_RereadMemo(run) ==
  LET memo == GetMemo(memos, run.sessionId)
      text == IF memo.kind = "undefined" THEN run.memoText
              ELSE formatMemoForPrompt(MemoData(memo.row))
      started ==
        [run EXCEPT !.pc = "review",
           !.calls = [p \in AllPersonas |->
                        IF p \in BoardIds
                          THEN IF p \in prompts THEN StartCall(retryAttempts)
                               ELSE Raised(NoPromptError)
                          ELSE run.calls[p]],
           !.inputs = [p \in AllPersonas |->
                         IF p \in BoardIds /\ p \in prompts THEN text
                         ELSE run.inputs[p]]]
  IN IF \E i \in 1..Len(Board) : started.calls[Board[i]].st = "raised"
       THEN FailRun(started, NoPromptError)
       ELSE started

\* PHASE 2 starts: every reviewer loads its prompt and issues its first fetch
\* with memoText as the user message
StartReview(run) ==
  LET started ==
        [run EXCEPT !.pc = "review",
           !.calls = [p \in AllPersonas |->
                        IF p \in BoardIds
                          THEN IF p \in prompts THEN StartCall(retryAttempts)
                               ELSE Raised(NoPromptError)
                          ELSE run.calls[p]],
           !.inputs = [p \in AllPersonas |->
                         IF p \in BoardIds /\ p \in prompts THEN run.memoText
                         ELSE run.inputs[p]]]
  IN IF Rejected(started) # {}
       THEN FailRun(started, started.calls[FirstRejected(started)].value)
       ELSE started

\* StartSynthesis marking the session complete as soon as the board is saved
StartSynthesis_CompleteEarly(run, tbl, sess) ==
  LET boardResults == BoardResults(run)
      saved == SaveBoard(tbl, run.sessionId, boardResults)
      run1 == [run EXCEPT !.boardResults = boardResults]
      synthesisInput == formatSynthesisInput(run.memoData, boardResults)
  IN [responses |-> saved, sessions |-> SetStatus(sess, run.sessionId, "complete"),
      run |-> IF "strategist" \in prompts
                THEN [run1 EXCEPT !.pc = "synthesize",
                                  !.synthesisInput = synthesisInput,
                                  !.inputs["strategist"] = synthesisInput,
                                  !.calls["strategist"] = StartCall(retryAttempts)]
                ELSE FailRun(run1, NoPromptError)]

\* Promise.all fulfilled: save the board rows, then PHASE 3 issues its fetch
StartSynthesis(run, tbl, sess) ==
  LET boardResults == BoardResults(run)
      saved == SaveBoard(tbl, run.sessionId, boardResults)
      run1 == [run EXCEPT !.boardResults = boardResults]
      synthesisInput == formatSynthesisInput(run.memoData, boardResults)
  IN [responses |-> saved, sessions |-> sess,
      run |-> IF "strategist" \in prompts
                THEN [run1 EXCEPT !.pc = "synthesize",
                                  !.synthesisInput = synthesisInput,
                                  !.inputs["strategist"] = synthesisInput,
                                  !.calls["strategist"] = StartCall(retryAttempts)]
                ELSE FailRun(run1, NoPromptError)]

\* the strategist returned: save its row; the route answers with the result
Finish(run, tbl, sess) ==
  LET secretaryResult == run.calls["secretary"].value
      strategistResult == run.calls["strategist"].value
      result ==
        [kind |-> "result", sessionId |-> run.sessionId, status |-> "complete",
         secretary |-> secretaryResult, board |-> run.boardResults,
         strategist |-> strategistResult,
         totalTokens |-> TotalTokens(secretaryResult, run.boardResults, strategistResult)]
  IN [responses |-> saveResponse(tbl, run.sessionId, "strategist", strategistResult),
      sessions |-> SetStatus(sess, run.sessionId, "complete"),
      run |-> [run EXCEPT !.pc = "returned", !.outcome = result,
                          !.http = [status |-> 200, body |-> result]]]

\* POST /api/sessions
CreateSession(s) ==
  /\ sessions[s] = "none"
  /\ sessions' = [sessions EXCEPT ![s] = "draft"]
  /\ UNCHANGED <<retryAttempts, prompts, memos, responses, runs, harnessVars>>

\* the request POST /api/sessions/:id/memo and the status it was answered with
MemoRequest(s, body, status) ==
  [fn |-> "saveMemo", session |-> s, memo |-> body, status |-> status]

\* SaveMemo inserting the new row next to the rows the session has
SaveMemo_NoDelete(s, body) ==
  /\ sessions[s] # "none"
  /\ memos' = Append(memos, MemoRow(s, body))
  /\ probe' = MemoRequest(s, body, 200)
  /\ UNCHANGED <<retryAttempts, prompts, sessions, responses, runs,
                 harness, w, invoked, sleeps>>

\* POST /api/sessions/:id/memo: the DELETE, then the INSERT.
\* memos.session_id REFERENCES sessions(id), so the INSERT throws for an id
\* that has no session row; memos.decision_required is NOT NULL, so it throws
\* for a body without one, after the DELETE has run
SaveMemo(s, body) ==
  /\ sessions[s] # "none"
  /\ LET deleted == SelectSeq(memos, LAMBDA row : row.session_id # s)
         row == MemoRow(s, body)
         inserted == row.decision_required.kind \notin {"undefined", "null"}
     IN /\ memos' = IF inserted THEN Append(deleted, row) ELSE deleted
        /\ probe' = MemoRequest(s, body, IF inserted THEN 200 ELSE 500)
  /\ memos' # memos
  /\ UNCHANGED <<retryAttempts, prompts, sessions, responses, runs,
                 harness, w, invoked, sleeps>>

\* the error runBoardMeeting throws for a session without a memo
NoMemoError == JsError("Error", <<"N", "o", " ", "m", "e", "m", "o">>)

\* RunStart issuing the secretary call before it looks for the memo
RunStart_CheckLate(r, s) ==
  /\ runs[r].pc = "idle"
  /\ sessions' = SetStatus(sessions, s, "running")
  /\ LET memo == GetMemo(memos, s)
         run == [runs[r] EXCEPT !.sessionId = s]
     IN runs' = [runs EXCEPT ![r] =
          IF memo.kind = "undefined"
            THEN FailRun([run EXCEPT !.calls["secretary"] = StartCall(retryAttempts)],
                         NoMemoError)
          ELSE LET memoData == MemoData(memo.row)
                   run1 == [run EXCEPT !.memoData = memoData,
                                       !.memoText = formatMemoForPrompt(memoData)]
               IN [run1 EXCEPT !.pc = "normalize",
                               !.inputs["secretary"] = run1.memoText,
                               !.calls["secretary"] = StartCall(retryAttempts)]]
  /\ UNCHANGED <<retryAttempts, prompts, memos, responses, harnessVars>>

\* POST /api/sessions/:id/run, up to the first await of runBoardMeeting
RunStartStep(r, s) ==
  /\ runs[r].pc = "idle"
  /\ sessions' = SetStatus(sessions, s, "running")
  /\ LET memo == GetMemo(memos, s)
         run == [runs[r] EXCEPT !.sessionId = s]
     IN runs' = [runs EXCEPT ![r] =
          IF memo.kind = "undefined"
            THEN FailRun(run, NoMemoError)
          ELSE LET memoData == MemoData(memo.row)
                   run1 == [run EXCEPT !.memoData = memoData,
                                       !.memoText = formatMemoForPrompt(memoData)]
               IN IF "secretary" \notin prompts
                    THEN FailRun(run1, NoPromptError)
                    ELSE [run1 EXCEPT !.pc = "normalize",
                                      !.inputs["secretary"] = run1.memoText,
                                      !.calls["secretary"] = StartCall(retryAttempts)]]
  /\ UNCHANGED <<retryAttempts, prompts, memos, responses>>

RunStart(r, s) == RunStartStep(r, s) /\ UNCHANGED harnessVars

\* AfterSecretary going on to PHASE 2 whatever the secretary call settled with
AfterSecretary_Swallow(run, tbl, sess) ==
  [responses |-> tbl, sessions |-> sess, run |-> StartReview(run)]

\* AfterSecretary running the normalization phase again when its call failed
AfterSecretary_Rerun(run, tbl, sess) ==
  LET c == run.calls["secretary"]
  IN [responses |-> tbl, sessions |-> sess,
      run |-> IF c.st = "raised"
                THEN [run EXCEPT !.calls["secretary"] = StartCall(retryAttempts)]
                ELSE StartReview(run)]

\* await llm.completeWithRetry(secretaryPrompt, ...) settled
AfterSecretary(run, tbl, sess) ==
  LET c == run.calls["secretary"]
  IN [responses |-> tbl, sessions |-> sess,
      run |-> IF c.st = "raised" THEN FailRun(run, c.value) ELSE StartReview(run)]

\* AfterReviewer going on to PHASE 3 at the first fulfilment, as a race
\* instead of a join would
AfterReviewer_NoBarrier(run, p, tbl, sess) ==
  LET c == run.calls[p]
  IN IF c.st = "raised"
       THEN [responses |-> tbl, sessions |-> sess, run |-> FailRun(run, c.value)]
     ELSE [responses |-> tbl, sessions |-> sess,
           run |-> [run EXCEPT !.pc = "synthesize",
                               !.calls["strategist"] = StartCall(retryAttempts)]]

\* AfterReviewer settling the join only when every reviewer has settled, as
\* Promise.allSettled would
AfterReviewer_WaitForAll(run, p, tbl, sess) ==
  IF \E q \in BoardIds : ~Settled(run.calls[q])
    THEN [responses |-> tbl, sessions |-> sess, run |-> run]
  ELSE IF Rejected(run) # {}
    THEN [responses |-> tbl, sessions |-> sess,
          run |-> FailRun(run, run.calls[FirstRejected(run)].value)]
  ELSE StartSynthesis(run, tbl, sess)

\* AfterReviewer saving the row of each reviewer as its call returns
AfterReviewer_SaveEach(run, p, tbl, sess) ==
  LET c == run.calls[p]
  IN IF c.st = "raised"
       THEN [responses |-> tbl, sessions |-> sess, run |-> FailRun(run, c.value)]
     ELSE IF \A q \in BoardIds : run.calls[q].st = "returned"
       THEN StartSynthesis(run, tbl, sess)
     ELSE [responses |-> saveResponse(tbl, run.sessionId, p, c.value),
           sessions |-> sess, run |-> run]

\* a reviewer's promise settled while runBoardMeeting awaits Promise.all: the
\* first rejection rejects the join, the last fulfilment fulfils it
AfterReviewer(run, p, tbl, sess) ==
  LET c == run.calls[p]
  IN IF c.st = "raised"
       THEN [responses |-> tbl, sessions |-> sess, run |-> FailRun(run, c.value)]
     ELSE IF \A q \in BoardIds : run.calls[q].st = "returned"
       THEN StartSynthesis(run, tbl, sess)
     ELSE [responses |-> tbl, sessions |-> sess, run |-> run]

\* await llm.completeWithRetry(strategistPrompt, ...) settled
AfterStrategist(run, tbl, sess) ==
  LET c == run.calls["strategist"]
  IN IF c.st = "raised"
       THEN [responses |-> tbl, sessions |-> sess, run |-> FailRun(run, c.value)]
     ELSE Finish(run, tbl, sess)

\* Awaited for a run that goes on listening to calls it has stopped awaiting
Awaited_Always(run, p) == TRUE

\* the await runBoardMeeting is suspended at is the one persona p's call settles
Awaited(run, p) ==
  \/ p = "secretary" /\ run.pc = "normalize"
  \/ p \in BoardIds /\ run.pc = "review"
  \/ p = "strategist" /\ run.pc = "synthesize"

\* Respond for reviewers that share one backoff timer: no answer is handled
\* while another reviewer of the run is backing off
Respond_Serial(r, p, out) ==
  /\ runs[r].calls[p].st = "inflight"
  /\ \A q \in BoardIds \ {p} : runs[r].calls[q].st # "backoff"
  /\ LET c == OnOutcome(runs[r].calls[p], retryAttempts, out, ExpectJson(p))
         run == [runs[r] EXCEPT !.calls[p] = c]
     IN \E next \in
          { IF ~Settled(c) \/ ~Awaited(run, p)
              THEN [responses |-> responses, sessions |-> sessions, run |-> run]
            ELSE IF p = "secretary" THEN AfterSecretary(run, responses, sessions)
            ELSE IF p \in BoardIds THEN AfterReviewer(run, p, responses, sessions)
            ELSE AfterStrategist(run, responses, sessions) } :
          /\ runs' = [runs EXCEPT ![r] = next.run]
          /\ responses' = next.responses
          /\ sessions' = next.sessions
  /\ UNCHANGED <<retryAttempts, prompts, memos, harnessVars>>

\* the provider answers the fetch in flight for persona p of run r, and
\* runBoardMeeting runs on to its next await; a call nobody awaits any more
\* settles without effect
RespondStep(r, p, out) ==
  /\ runs[r].calls[p].st = "inflight"
  /\ LET c == OnOutcome(runs[r].calls[p], retryAttempts, out, ExpectJson(p))
         run == [runs[r] EXCEPT !.calls[p] = c]
     IN \E next \in
          { IF ~Settled(c) \/ ~Awaited(run, p)
              THEN [responses |-> responses, sessions |-> sessions, run |-> run]
            ELSE IF p = "secretary" THEN AfterSecretary(run, responses, sessions)
            ELSE IF p \in BoardIds THEN AfterReviewer(run, p, responses, sessions)
            ELSE AfterStrategist(run, responses, sessions) } :
          /\ runs' = [runs EXCEPT ![r] = next.run]
          /\ responses' = next.responses
          /\ sessions' = next.sessions
  /\ UNCHANGED <<retryAttempts, prompts, memos>>

Respond(r, p, out) == RespondStep(r, p, out) /\ UNCHANGED harnessVars

\* the backoff timer of persona p's call in run r fires
TimerStep(r, p) ==
  /\ runs[r].calls[p].st = "backoff"
  /\ runs' = [runs EXCEPT ![r].calls[p] = OnTimer(runs[r].calls[p])]
  /\ UNCHANGED <<retryAttempts, prompts, dbVars>>

Timer(r, p) == TimerStep(r, p) /\ UNCHANGED harnessVars

(***************************************************************************)
(* Specifications.                                                         *)
(***************************************************************************)
\* the prompt directories of the model: complete, or one file missing
PromptSets == {AllPersonas} \cup {AllPersonas \ {p} : p \in AllPersonas}

\* the server after start-up, database empty
Init ==
  /\ retryAttempts \in {RetryAttemptsOf(cfg) : cfg \in ConfigRetryAttempts}
  /\ prompts \in PromptSets
  /\ sessions = [s \in SessionIds |-> "none"]
  /\ memos = <<>>
  /\ responses = <<>>
  /\ runs = [r \in RunIds |-> NoRun]
  /\ harness = NoHarness
  /\ w = NoCall
  /\ invoked = 0
  /\ sleeps = <<>>
  /\ probe = NoProbe

Next ==
  \/ \E s \in SessionIds : CreateSession(s)
  \/ \E s \in SessionIds, body \in MemoBodies : SaveMemo(s, body)
  \/ \E r \in RunIds, s \in SessionIds : RunStart(r, s)
  \/ \E r \in RunIds, p \in AllPersonas, out \in RunOutcomes : Respond(r, p, out)
  \/ \E r \in RunIds, p \in AllPersonas : Timer(r, p)

Spec == Init /\ [][Next]_vars

\* a client and a harness about to call completeWithRetry on it
InitRetry ==
  /\ retryAttempts \in {RetryAttemptsOf(cfg) : cfg \in ConfigRetryAttempts}
  /\ prompts = AllPersonas
  /\ sessions = [s \in SessionIds |-> "none"]
  /\ memos = <<>>
  /\ responses = <<>>
  /\ runs = [r \in RunIds |-> NoRun]
  /\ harness \in [maxRetries : MaxRetriesArgs, expectJson : BOOLEAN,
                   stub : [1..StubLen -> StubOutcomes]]
  /\ harness.maxRetries.kind = "null" \/ retryAttempts = 3
  /\ w = NoCall
  /\ invoked = 0
  /\ sleeps = <<>>
  /\ probe = NoProbe

NextRetry == WStart \/ WRespond \/ WTimer

SpecRetry == InitRetry /\ [][NextRetry]_vars

(***************************************************************************)
(* A run whose memo is replaced while it is suspended, and two runs on two *)
(* sessions served by the one event loop.                                  *)
(***************************************************************************)
\* the memo the session holds when its run is requested
FirstMemo == CHOOSE body \in MemoBodies : TRUE

\* the memo a client posts in its place
RevisedMemo ==
  MemoBody(Arr(<<"runway is long">>), Str("wait a quarter"),
           Arr(<<Option(Str("wait"))>>),
           Constraints(JsUndefined, Str("none"), JsUndefined, JsUndefined),
           Arr(<<"cash at hand">>), JsUndefined)

\* a memo posted without its decision_required
UndecidedMemo ==
  MemoBody(Arr(<<"runway is long">>), JsUndefined, JsUndefined, JsUndefined,
           JsUndefined, JsUndefined)

\* the responses the provider gives while the memo is being replaced
MemoOutcomes ==
  { HttpOk(OkData(ObjectText, Usage(Num(1), Num(1), Details(Num(1)), Num(2)))),
    HttpError(503, BodyDown) }

\* a session with its memo saved, two attempts per call configured
InitMemo ==
  /\ retryAttempts = RetryAttemptsOf(Num(2))
  /\ prompts = AllPersonas
  /\ sessions = [s \in SessionIds |-> "draft"]
  /\ memos = <<MemoRow("A", FirstMemo)>>
  /\ responses = <<>>
  /\ runs = [r \in RunIds |-> NoRun]
  /\ harness = NoHarness
  /\ w = NoCall
  /\ invoked = 0
  /\ sleeps = <<>>
  /\ probe = MemoRequest("A", FirstMemo, 200)

NextMemo ==
  \/ \E s \in SessionIds, body \in {FirstMemo, RevisedMemo, UndecidedMemo} :
       SaveMemo(s, body)
  \/ \E r \in RunIds, s \in SessionIds : RunStart(r, s)
  \/ \E r \in RunIds, p \in AllPersonas, out \in MemoOutcomes : Respond(r, p, out)
  \/ \E r \in RunIds, p \in AllPersonas : Timer(r, p)

SpecMemo == InitMemo /\ [][NextMemo]_vars

\* two sessions, and the request that runs each
BothSessions == {"A", "B"}
BothRuns == {1, 2}
SessionOf(r) == IF r = 1 THEN "A" ELSE "B"

\* the responses the provider gives to the calls of each run: a JSON object
\* with usage to one, prose without usage to the other, an outage to both
AnswersTo(r) ==
  { IF r = 1
      THEN HttpOk(OkData(ObjectText, Usage(Num(1), Num(1), Details(Num(1)), Num(2))))
      ELSE HttpOk(OkData(PlainText, JsUndefined)),
    HttpError(503, BodyDown) }

\* two sessions with their memos saved, one attempt per call configured
InitBoth ==
  /\ retryAttempts = RetryAttemptsOf(Num(1))
  /\ prompts = AllPersonas
  /\ sessions = [s \in BothSessions |-> "draft"]
  /\ memos = <<MemoRow("A", FirstMemo), MemoRow("B", RevisedMemo)>>
  /\ responses = <<>>
  /\ runs = [r \in BothRuns |-> NoRun]
  /\ harness = NoHarness
  /\ w = NoCall
  /\ invoked = 0
  /\ sleeps = <<>>
  /\ probe = MemoRequest("B", RevisedMemo, 200)

NextBoth ==
  \/ \E r \in BothRuns : RunStart(r, SessionOf(r))
  \/ \E r \in BothRuns, p \in AllPersonas :
       \E out \in AnswersTo(r) : Respond(r, p, out)

SpecBoth == InitBoth /\ [][NextBoth]_vars

\* one session with its memo saved, about to be run twice, one attempt per
\* call configured
InitAgain ==
  /\ retryAttempts = RetryAttemptsOf(Num(1))
  /\ prompts = AllPersonas
  /\ sessions = [s \in SessionIds |-> "draft"]
  /\ memos = <<MemoRow("A", FirstMemo)>>
  /\ responses = <<>>
  /\ runs = [r \in BothRuns |-> NoRun]
  /\ harness = NoHarness
  /\ w = NoCall
  /\ invoked = 0
  /\ sleeps = <<>>
  /\ probe = MemoRequest("A", FirstMemo, 200)

NextAgain ==
  \/ \E r \in BothRuns, s \in SessionIds : RunStart(r, s)
  \/ \E r \in BothRuns, p \in AllPersonas :
       \E out \in AnswersTo(r) : Respond(r, p, out)

SpecAgain == InitAgain /\ [][NextAgain]_vars

(***************************************************************************)
(* A run whose provider counts the requests it receives, every request     *)
(* being answered in the end.                                              *)
(***************************************************************************)
\* the fetches a step issues for run r: the calls it leaves newly in flight
NewFetches(r) ==
  Cardinality({p \in AllPersonas :
                 /\ runs'[r].calls[p].st = "inflight"
                 /\ runs'[r].calls[p] # runs[r].calls[p]})

\* a session with its memo saved; invoked counts the provider calls
InitBudget ==
  /\ retryAttempts \in {RetryAttemptsOf(cfg) : cfg \in ConfigRetryAttempts}
  /\ prompts = AllPersonas
  /\ sessions = [s \in SessionIds |-> "draft"]
  /\ memos = <<MemoRow("A", FirstMemo)>>
  /\ responses = <<>>
  /\ runs = [r \in RunIds |-> NoRun]
  /\ harness = NoHarness
  /\ w = NoCall
  /\ invoked = 0
  /\ sleeps = <<>>
  /\ probe = MemoRequest("A", FirstMemo, 200)

\* the run is requested
Requested(r, s) ==
  /\ RunStartStep(r, s)
  /\ invoked' = invoked + NewFetches(r)
  /\ UNCHANGED <<harness, w, sleeps, probe>>

\* the provider answers the fetch in flight for persona p of run r
ProviderAnswers(r, p) ==
  /\ \E out \in MemoOutcomes : RespondStep(r, p, out)
  /\ invoked' = invoked + NewFetches(r)
  /\ UNCHANGED <<harness, w, sleeps, probe>>

\* the backoff timer of persona p's call fires and the next fetch is issued
TimerFires(r, p) ==
  /\ TimerStep(r, p)
  /\ invoked' = invoked + NewFetches(r)
  /\ UNCHANGED <<harness, w, sleeps, probe>>

NextBudget ==
  \/ \E r \in RunIds, s \in SessionIds : Requested(r, s)
  \/ \E r \in RunIds, p \in AllPersonas : ProviderAnswers(r, p)
  \/ \E r \in RunIds, p \in AllPersonas : TimerFires(r, p)

\* every timer of the event loop fires, and every provider call returns or
\* fails in the end: no fetch stays in flight for ever
SpecBudget ==
  /\ InitBudget
  /\ [][NextBudget]_vars
  /\ \A r \in RunIds, p \in AllPersonas :
       /\ WF_vars(TimerFires(r, p))
       /\ []<>(runs[r].calls[p].st # "inflight")

(***************************************************************************)
(* Direct calls of the pure functions: parseResponse of the client,        *)
(* formatMemoForPrompt and formatSynthesisInput of the orchestrator.       *)
(***************************************************************************)
\* a code block of a response text: fence, label, newline, content, newline, fence
CodeBlock(label, content) ==
  [kind |-> "block", label |-> label, content |-> content]
Prose(text) == [kind |-> "prose", text |-> text]

\* the characters a segment contributes to the text
SegmentText(seg) ==
  IF seg.kind = "block"
    THEN Backticks \o seg.label \o <<"\n">> \o seg.content \o <<"\n">> \o Backticks
    ELSE seg.text

RECURSIVE DocText(_)
\* a response text: its segments, one per line
DocText(doc) ==
  IF doc = <<>> THEN <<>>
  ELSE IF Len(doc) = 1 THEN SegmentText(Head(doc))
  ELSE SegmentText(Head(doc)) \o <<"\n">> \o DocText(Tail(doc))

LabelJson == <<"j", "s", "o", "n">>
LabelJs == <<"j", "s">>

\* the segments of the probed texts: prose that is not JSON, a bare JSON
\* document padded with whitespace, and code blocks labelled json, unlabelled
\* and labelled js
Segments ==
  { Prose(PlainText),
    Prose(<<" ">> \o ArrayText \o <<" ">>),
    CodeBlock(LabelJson, ObjectText),
    CodeBlock(LabelJson, PlainText),
    CodeBlock(<<>>, ArrayText),
    CodeBlock(<<>>, ObjectText),
    CodeBlock(LabelJs, ObjectText) }

Docs == UNION {[1..n -> Segments] : n \in 1..MaxSegments}

\* the usage fields of the probed responses: absent, or with each counter
\* absent, zero or positive
Usages ==
  {JsUndefined} \cup
  { Usage(i, o, d, t) :
      i \in {JsUndefined, Num(0), Num(1)}, o \in {JsUndefined, Num(0), Num(2)},
      d \in {JsUndefined, Details(JsUndefined), Details(Num(0)), Details(Num(4))},
      t \in {JsUndefined, Num(0), Num(7)} }

\* the items of the probed output arrays
OutputItems ==
  { OutputItem("message", Arr(<<ContentBlock("output_text", Txt(<<"{">>)),
                                ContentBlock("text", Txt(<<"}">>))>>)),
    OutputItem("message", Arr(<<ContentBlock("refusal", Txt(PlainText)),
                                ContentBlock("output_text", Txt(<<"[", "]">>))>>)),
    OutputItem("message", Arr(<<ContentBlock("output_text", JsUndefined),
                                ContentBlock("text", Txt(<<"n">>))>>)),
    OutputItem("message", JsUndefined),
    OutputItem("reasoning", Arr(<<ContentBlock("text", Txt(<<"o">>))>>)) }

Outputs ==
  {JsUndefined} \cup {Arr(items) : items \in UNION {[1..n -> OutputItems] : n \in 0..MaxItems}}

\* the probed calls of parseResponse
ParseProbes ==
  { [fn |-> "parseResponse", expectJson |-> e, result |-> JsUndefined,
     data |-> OkData(DocText(doc), JsUndefined)] : doc \in Docs, e \in BOOLEAN }
  \cup
  { [fn |-> "parseResponse", expectJson |-> TRUE, result |-> JsUndefined,
     data |-> ResponseData(t, output, JsUndefined)] :
       t \in {JsUndefined, Txt(<<>>), Txt(PlainText)}, output \in Outputs }
  \cup
  { [fn |-> "parseResponse", expectJson |-> FALSE, result |-> JsUndefined,
     data |-> OkData(ObjectText, u)] : u \in Usages }

\* the probed memos: each list empty or not, each constraint absent or given
MemoDatas ==
  { MemoData(MemoRow("A", MemoBody(context, Str("take the offer"), options,
                                   Constraints(time, budget, risk, politics),
                                   metrics, questions))) :
      context \in {JsUndefined, Arr(<<"runway is short", "two bidders">>)},
      options \in {Arr(<<>>), Arr(<<Option(Str("accept")), Str("decline")>>)},
      time \in {JsUndefined, Str("two weeks")},
      budget \in {JsUndefined, Str("50k")},
      risk \in {JsUndefined, Str("Low")},
      politics \in {JsUndefined, Str("board split")},
      metrics \in {JsUndefined, Arr(<<"retention">>)},
      questions \in {Arr(<<>>), Arr(<<"what breaks first", "who decides">>)} }

\* the outcomes of the reviewer calls of the probed syntheses: text that is
\* not JSON (parsed null), the JSON of an answer, the JSON of an array
ReviewerOutcomes ==
  {parseResponse(OkData(text, JsUndefined), TRUE) : text \in {PlainText, ObjectText, ArrayText}}

SynthesisProbes ==
  { [fn |-> "formatSynthesisInput", result |-> JsUndefined,
     memo |-> MemoData(MemoRow("A", body)),
     boardResults |-> [i \in 1..Len(Board) |-> [persona |-> Board[i], result |-> f[Board[i]]]]] :
       body \in MemoBodies, f \in [BoardIds -> ReviewerOutcomes] }

MemoProbes ==
  {[fn |-> "formatMemoForPrompt", result |-> JsUndefined, memo |-> m] : m \in MemoDatas}

\* the probed clients: the default effort of the environment, and the
\* reasoning_overrides of config.json absent, for one persona, for two
Clients ==
  { Client(Str(effort), Str("medium"), overrides) :
      effort \in {"medium", "low"},
      overrides \in {JsUndefined,
                     [kind |-> "object", strategist |-> Str("high")],
                     [kind |-> "object", strategist |-> Str("xhigh"),
                                         operator |-> Str("none")]} }

EffortProbes ==
  { [fn |-> "getReasoningEffort", result |-> JsUndefined, client |-> client,
     personaId |-> personaId] :
       client \in Clients, personaId \in {"secretary", "operator", "strategist"} }

RequestProbes ==
  { [fn |-> "complete", result |-> JsUndefined, client |-> client,
     options |-> Options(personaId, effort, verbosity, JsUndefined, schema)] :
       client \in Clients,
       personaId \in {JsUndefined, Str("secretary"), Str("operator"), Str("strategist")},
       effort \in {JsUndefined, Str("minimal")},
       verbosity \in {JsUndefined, Str("low")},
       schema \in {JsUndefined, [kind |-> "object"]} }

\* what a probed rendering returned
Rendered(text) == [kind |-> "rendered", text |-> text]

CallParseResponse ==
  /\ probe.fn = "parseResponse"
  /\ probe.result = JsUndefined
  /\ probe' = [probe EXCEPT !.result = parseResponse(probe.data, probe.expectJson)]
  /\ UNCHANGED <<retryAttempts, prompts, dbVars, runs, harness, w, invoked, sleeps>>

CallFormatMemo ==
  /\ probe.fn = "formatMemoForPrompt"
  /\ probe.result = JsUndefined
  /\ probe' = [probe EXCEPT !.result = Rendered(formatMemoForPrompt(probe.memo))]
  /\ UNCHANGED <<retryAttempts, prompts, dbVars, runs, harness, w, invoked, sleeps>>

CallFormatSynthesis ==
  /\ probe.fn = "formatSynthesisInput"
  /\ probe.result = JsUndefined
  /\ probe' = [probe EXCEPT !.result =
                  Rendered(formatSynthesisInput(probe.memo, probe.boardResults))]
  /\ UNCHANGED <<retryAttempts, prompts, dbVars, runs, harness, w, invoked, sleeps>>

CallGetReasoningEffort ==
  /\ probe.fn = "getReasoningEffort"
  /\ probe.result = JsUndefined
  /\ probe' = [probe EXCEPT !.result = getReasoningEffort(probe.client, probe.personaId)]
  /\ UNCHANGED <<retryAttempts, prompts, dbVars, runs, harness, w, invoked, sleeps>>

\* complete() up to the fetch: the request body it has built
CallComplete ==
  /\ probe.fn = "complete"
  /\ probe.result = JsUndefined
  /\ probe' = [probe EXCEPT !.result = RequestBody(probe.client, probe.options)]
  /\ UNCHANGED <<retryAttempts, prompts, dbVars, runs, harness, w, invoked, sleeps>>

InitPure ==
  /\ retryAttempts = 3
  /\ prompts = AllPersonas
  /\ sessions = [s \in SessionIds |-> "none"]
  /\ memos = <<>>
  /\ responses = <<>>
  /\ runs = [r \in RunIds |-> NoRun]
  /\ harness = NoHarness
  /\ w = NoCall
  /\ invoked = 0
  /\ sleeps = <<>>
  /\ probe \in ParseProbes \cup MemoProbes \cup SynthesisProbes \cup EffortProbes
                 \cup RequestProbes

NextPure ==
  \/ CallParseResponse
  \/ CallFormatMemo
  \/ CallFormatSynthesis
  \/ CallGetReasoningEffort
  \/ CallComplete

SpecPure == InitPure /\ [][NextPure]_vars

(***************************************************************************)
(* Properties of the retry wrapper, checked under SpecRetry.               *)
(***************************************************************************)
\* the stub has answered call number k
Answered(k) == k < invoked \/ (k = invoked /\ w.st # "inflight")

\* the stub is scripted to fail j times without a 4xx status and then succeed
FailsThenSucceeds(j) ==
  /\ \A i \in 1..j : IsNon4xxFailure(harness.stub[i])
  /\ harness.stub[j + 1].kind = "ok"

\* C1: against a provider that fails j < maxAttempts times with errors that
\* carry no 4xx status and then succeeds, completeWithRetry returns that
\* success and has invoked complete() exactly j+1 times
C1_FailsThenSucceedsReturns ==
  \A j \in 0..(StubLen - 1) :
    (j < Retries /\ FailsThenSucceeds(j) /\ Settled(w))
      => /\ w.st = "returned"
         /\ w.value = parseResponse(harness.stub[j + 1].data, harness.expectJson)
         /\ invoked = j + 1

\* C2: an answer with a 4xx status makes the wrapper raise that error at
\* once: one invocation more than the failures retried before it, no backoff
\* started after it, no further attempt
C2_4xxRaisesImmediately ==
  \A k \in 1..StubLen :
    (Answered(k) /\ Is4xx(harness.stub[k]))
      => /\ w.st = "raised"
         /\ w.value = ErrorOf(harness.stub[k])
         /\ invoked = k
         /\ Len(sleeps) = k - 1
         /\ \A i \in 1..(k - 1) : harness.stub[i].kind # "ok"

\* a 429 on the second of three attempts ended the call
C2_Witness ==
  /\ Retries = 3
  /\ w.st = "raised"
  /\ invoked = 2
  /\ IsNon4xxFailure(harness.stub[1])
  /\ Is4xx(harness.stub[2])
  /\ harness.stub[2].status = 429

\* C3: a failure without a 4xx status on attempt k < maxAttempts is followed
\* by attempt k+1, whatever its message or body says
C3_Non4xxIsRetried ==
  \A k \in 1..StubLen :
    (Answered(k) /\ IsNon4xxFailure(harness.stub[k]) /\ k < Retries /\ invoked = k)
      => w.st = "backoff"

\* C4: when all maxAttempts attempts fail with errors of no 4xx status,
\* complete() was invoked exactly maxAttempts times, never more, and the
\* wrapper raises exactly the error of the last attempt
C4_ExhaustionRaisesLastError ==
  /\ Retries >= 1 => invoked <= Retries
  /\ ( /\ Retries >= 1
       /\ Answered(Retries)
       /\ \A i \in 1..Retries : IsNon4xxFailure(harness.stub[i]) )
      => /\ w.st = "raised"
         /\ w.value = ErrorOf(harness.stub[Retries])
         /\ invoked = Retries

\* three attempts failed with three different errors
C4_Witness ==
  /\ Retries = 3
  /\ invoked = 3
  /\ w.st = "raised"
  /\ \A i \in 1..3 : IsNon4xxFailure(harness.stub[i])
  /\ harness.stub[1] # harness.stub[3]
  /\ harness.stub[2] # harness.stub[3]

\* C5: the backoff after failed attempt k is 2^k seconds, backoffs happen
\* only between two attempts, and none follows the final failed attempt
C5_BackoffDelays ==
  /\ \A k \in 1..Len(sleeps) : sleeps[k] = (2 ^ k) * 1000
  /\ w.st = "backoff" => Len(sleeps) = invoked /\ invoked < Retries
  /\ w.st \in {"inflight", "returned"} => Len(sleeps) = invoked - 1
  /\ (w.st = "raised" /\ invoked >= 1) => Len(sleeps) = invoked - 1

\* two backoffs, then the third attempt failed and the error was raised
C5_Witness ==
  /\ w.st = "raised"
  /\ invoked = 3
  /\ sleeps = <<2000, 4000>>
  /\ IsNon4xxFailure(harness.stub[3])

\* C14: with a schema, an answer whose text is not JSON is no failure: the
\* call returns at once, without a further attempt, an outcome whose parsed
\* is null and whose raw is the whole text
C14_NonJsonTextIsSuccess ==
  \A k \in 1..StubLen :
    ( /\ Answered(k)
      /\ harness.expectJson
      /\ harness.stub[k].kind = "ok"
      /\ harness.stub[k].data.output_text = Txt(<<"n", "o">>) )
      => /\ w.st = "returned"
         /\ w.value.parsed = JsNull
         /\ w.value.raw = <<"n", "o">>
         /\ invoked = k

\* after one failed attempt the provider answered with text that is not JSON
C14_Witness ==
  /\ harness.expectJson
  /\ invoked = 2
  /\ harness.stub[2].kind = "ok"
  /\ harness.stub[2].data.output_text = Txt(<<"n", "o">>)
  /\ w.st = "returned"
  /\ w.value.parsed = JsNull

\* C27: a response with a non-success status makes complete() throw an
\* error that carries the status, and whether the wrapper retries is decided
\* by that status alone: an answer with the status of an earlier answer that
\* was retried is retried as well when attempts remain
C27_DecisionByStatusAlone ==
  \A k \in 1..StubLen :
    (Answered(k) /\ invoked = k /\ harness.stub[k].kind = "http") =>
      /\ w.st \in {"backoff", "raised"}
      /\ w.st = "raised" =>
           Includes(w.value.message, <<"(">> \o StatusText(harness.stub[k].status) \o <<")">>)
      /\ (k < Retries /\ \E j \in 1..(k - 1) :
                            /\ harness.stub[j].kind = "http"
                            /\ harness.stub[j].status = harness.stub[k].status)
           => w.st = "backoff"

(***************************************************************************)
(* Properties of the orchestrator, checked under Spec.                     *)
(***************************************************************************)
AllReturned(run) == \A p \in AllPersonas : run.calls[p].st = "returned"

\* C6: when the normalization call, the 4 reviewer calls and the synthesis
\* call succeed, the result holds exactly 4 reviewer outcomes, one for each
\* of operator, finance, craft-expert and contrarian, plus one normalization
\* and one synthesis outcome
C6_FourReviewerOutcomes ==
  \A r \in RunIds :
    AllReturned(runs[r]) =>
      LET res == runs[r].outcome IN
      /\ runs[r].pc = "returned"
      /\ res.kind = "result"
      /\ runs[r].http = [status |-> 200, body |-> res]
      /\ Len(res.board) = 4
      /\ \A p \in {"operator", "finance", "craft-expert", "contrarian"} :
           /\ Cardinality({i \in 1..Len(res.board) : res.board[i].persona = p}) = 1
           /\ \A i \in 1..Len(res.board) :
                res.board[i].persona = p =>
                  /\ res.board[i].result.kind = "outcome"
                  /\ res.board[i].result = runs[r].calls[p].value
      /\ res.secretary.kind = "outcome"
      /\ res.secretary = runs[r].calls["secretary"].value
      /\ res.strategist.kind = "outcome"
      /\ res.strategist = runs[r].calls["strategist"].value

\* a run returned whose reviewers did not all answer alike
C6_Witness ==
  \E r \in RunIds :
    /\ runs[r].pc = "returned"
    /\ runs[r].calls["operator"].value # runs[r].calls["finance"].value
    /\ runs[r].calls["craft-expert"].value # runs[r].calls["contrarian"].value

\* C7: the totalTokens of a completed run is tokens.total of the
\* normalization outcome plus that of each of the 4 reviewer outcomes plus
\* that of the synthesis outcome
C7_TotalTokensIsSum ==
  \A r \in RunIds :
    runs[r].pc = "returned" =>
      runs[r].outcome.totalTokens =
        runs[r].calls["secretary"].value.tokens.total
          + runs[r].calls["operator"].value.tokens.total
          + runs[r].calls["finance"].value.tokens.total
          + runs[r].calls["craft-expert"].value.tokens.total
          + runs[r].calls["contrarian"].value.tokens.total
          + runs[r].calls["strategist"].value.tokens.total

\* a completed run in which calls of every phase reported tokens and one
\* reviewer reported none
C7_Witness ==
  \E r \in RunIds :
    /\ runs[r].pc = "returned"
    /\ runs[r].calls["secretary"].value.tokens.total = 2
    /\ runs[r].calls["finance"].value.tokens.total = 0
    /\ runs[r].calls["contrarian"].value.tokens.total = 2
    /\ runs[r].calls["strategist"].value.tokens.total = 2
    /\ runs[r].outcome.totalTokens = 8

\* the run failed in PHASE 2 because exactly reviewer p failed terminally,
\* its last attempt answered 503
OnlyReviewerFailed(run, p) ==
  /\ prompts = AllPersonas
  /\ run.pc = "raised"
  /\ run.calls["secretary"].st = "returned"
  /\ run.calls[p].st = "raised"
  /\ run.calls[p].value = ErrorOf(HttpError(503, BodyDown))
  /\ \A q \in BoardIds \ {p} : run.calls[q].st = "returned"

\* C8: if exactly one of the 4 reviewer calls fails terminally, the run
\* fails with an OrchestrationError naming that persona and the phase
\* "parallel_review", and no result is returned
C8_OrchestrationErrorNamesPersona ==
  \A r \in RunIds : \A p \in BoardIds :
    OnlyReviewerFailed(runs[r], p) =>
      /\ runs[r].outcome.kind = "error"
      /\ runs[r].outcome.name = "OrchestrationError"
      /\ runs[r].outcome.personaId = [kind |-> "string", v |-> p]
      /\ runs[r].outcome.phase = [kind |-> "string", v |-> "parallel_review"]
      /\ runs[r].http.status = 500

\* C9: if the normalization call fails terminally the run fails at once and
\* no reviewer call and no synthesis call is ever issued
C9_NormalizationFailureStopsRun ==
  \A r \in RunIds :
    runs[r].calls["secretary"].st = "raised" =>
      /\ runs[r].pc = "raised"
      /\ runs[r].outcome = runs[r].calls["secretary"].value
      /\ \A p \in AllPersonas \ {"secretary"} : runs[r].calls[p].st = "none"

\* the secretary's call failed on a server that has every prompt file
C9_Witness ==
  \E r \in RunIds :
    /\ prompts = AllPersonas
    /\ runs[r].calls["secretary"].st = "raised"
    /\ runs[r].http.status = 500

\* the route has answered the run request
Finished(run) == run.pc \in {"returned", "raised"}

\* C10: a finished run leaves its session in Complete or Failed: Failed when
\* a phase failed, Complete only when the synthesis call succeeded, never
\* 'running'
C10_RunEndsCompleteOrFailed ==
  \A r \in RunIds :
    (Finished(runs[r]) /\ sessions[runs[r].sessionId] # "none") =>
      /\ sessions[runs[r].sessionId] \in {"complete", "failed"}
      /\ runs[r].pc = "raised" => sessions[runs[r].sessionId] = "failed"
      /\ sessions[runs[r].sessionId] = "complete"
           => runs[r].calls["strategist"].st = "returned"

\* the reviewer calls of the run have all returned
ReviewersReturned(run) ==
  \A p \in {"operator", "finance", "craft-expert", "contrarian"} :
    run.calls[p].st = "returned"

\* the lines of text that are the heading of persona's block
BlockHeadings(text, heading) ==
  {i \in 1..Len(text) : text[i] = <<"### ", heading>>}

\* C11: the synthesis call is issued only after all 4 reviewer calls of the
\* run have returned: it is never in flight or backing off while a reviewer
\* call is in flight or backing off, and the synthesis input holds one block
\* for each of the 4 reviewers
C11_FanInBarrier ==
  \A r \in RunIds :
    LET run == runs[r] IN
    /\ run.calls["strategist"].st # "none" => ReviewersReturned(run)
    /\ run.calls["strategist"].st \in {"inflight", "backoff"} =>
         \A p \in BoardIds : run.calls[p].st \notin {"inflight", "backoff"}
    /\ run.calls["strategist"].st # "none" =>
         \A heading \in {"OPERATOR", "FINANCE", "CRAFT-EXPERT", "CONTRARIAN"} :
           Cardinality(BlockHeadings(run.synthesisInput, heading)) = 1

\* the synthesis call is on its second attempt after reviewers that answered
\* differently, one of them without JSON
C11_Witness ==
  \E r \in RunIds :
    /\ runs[r].calls["strategist"].st = "inflight"
    /\ runs[r].calls["strategist"].attempt = 2
    /\ runs[r].calls["operator"].value.parsed = JsNull
    /\ runs[r].calls["contrarian"].value.parsed # JsNull

\* the persona ids of the response rows, in insertion order
RowPersonas == [i \in 1..Len(responses) |-> responses[i].persona_id]

\* C12 as stated: a response row exists only if the synthesis call of the
\* run has succeeded, and a run that ended in failure has written no row
C12_RowsOnlyAfterSynthesis ==
  \A r \in RunIds :
    /\ responses # <<>> => runs[r].calls["strategist"].st = "returned"
    /\ runs[r].pc = "raised" => responses = <<>>

\* C12, amended: a reviewer row exists only if all 4 reviewer calls of the
\* run succeeded and the strategist row only if the synthesis call
\* succeeded; a run that failed before its reviewers all succeeded has
\* written no row, and a run that failed after that has written exactly its
\* 4 reviewer rows
C12_RowsFollowTheirPhase ==
  \A r \in RunIds :
    /\ responses # <<>> => ReviewersReturned(runs[r])
    /\ (\E i \in 1..Len(responses) : responses[i].persona_id = "strategist")
         => runs[r].calls["strategist"].st = "returned"
    /\ (runs[r].pc = "raised" /\ ~ReviewersReturned(runs[r])) => responses = <<>>
    /\ (runs[r].pc = "raised" /\ ReviewersReturned(runs[r]))
         => RowPersonas = <<"operator", "finance", "craft-expert", "contrarian">>

\* the synthesis call failed after all reviewers had succeeded
C12_Witness ==
  \E r \in RunIds :
    /\ runs[r].pc = "raised"
    /\ runs[r].calls["strategist"].st = "raised"
    /\ Len(responses) = 4

\* C13: a run that reached Complete has written exactly 6 rows: one for the
\* secretary, one for each of the 4 reviewers and one for the strategist
C13_SixRowsWhenComplete ==
  \A r \in RunIds :
    runs[r].pc = "returned" =>
      /\ Len(responses) = 6
      /\ \A p \in {"secretary", "operator", "finance", "craft-expert", "contrarian",
                    "strategist"} :
           Cardinality({i \in 1..Len(responses) : responses[i].persona_id = p}) = 1

\* C21: while a reviewer of a run is waiting in a backoff delay, every
\* other reviewer of that run can go on: the answer to its fetch in flight
\* can be handled, and its own backoff timer can fire
C21_BackoffDoesNotStall ==
  \A r \in RunIds : \A b \in BoardIds :
    (\E a \in BoardIds \ {b} : runs[r].calls[a].st = "backoff") =>
      /\ runs[r].calls[b].st = "inflight"
           => \E out \in RunOutcomes : ENABLED Respond(r, b, out)
      /\ runs[r].calls[b].st = "backoff" => ENABLED Timer(r, b)

\* the operator is backing off while finance, which has already retried, has
\* a fetch in flight and the contrarian has returned
C21_Witness ==
  \E r \in RunIds :
    /\ runs[r].pc = "review"
    /\ runs[r].calls["operator"].st = "backoff"
    /\ runs[r].calls["finance"].st = "inflight"
    /\ runs[r].calls["finance"].attempt = 2
    /\ runs[r].calls["contrarian"].st = "returned"

\* C22: as soon as one reviewer call has failed terminally the run has
\* failed and the route has answered 500, whatever the other reviewer calls
\* are doing, and no synthesis call is issued
C22_FirstFailureFailsRun ==
  \A r \in RunIds : \A p \in BoardIds :
    runs[r].calls[p].st = "raised" =>
      /\ runs[r].pc = "raised"
      /\ runs[r].http.status = 500
      /\ \E q \in BoardIds : runs[r].calls[q].st = "raised"
                              /\ runs[r].outcome = runs[r].calls[q].value
      /\ runs[r].calls["strategist"].st = "none"

\* the run has failed with the operator's error while finance is backing
\* off and the contrarian has a fetch in flight
C22_Witness ==
  \E r \in RunIds :
    /\ prompts = AllPersonas
    /\ runs[r].pc = "raised"
    /\ runs[r].calls["operator"].st = "raised"
    /\ runs[r].outcome = runs[r].calls["operator"].value
    /\ runs[r].calls["finance"].st = "backoff"
    /\ runs[r].calls["contrarian"].st = "inflight"

\* C23: once a run has failed, nothing its calls do later writes a response
\* row, changes a session status, issues the synthesis call or changes the
\* outcome and the answer of the run
C23_SiblingsDiscarded ==
  [][\A r \in RunIds :
       (runs[r].pc = "raised" /\ runs'[r] # runs[r]) =>
         /\ responses' = responses
         /\ sessions' = sessions
         /\ runs'[r].pc = "raised"
         /\ runs'[r].outcome = runs[r].outcome
         /\ runs'[r].http = runs[r].http
         /\ runs'[r].calls["strategist"] = runs[r].calls["strategist"]]_vars

\* the run failed when the reviewers were started, for want of the
\* operator's prompt; afterwards finance returned and the contrarian failed
C23_Witness ==
  \E r \in RunIds :
    /\ "operator" \notin prompts
    /\ runs[r].pc = "raised"
    /\ runs[r].outcome = NoPromptError
    /\ runs[r].calls["finance"].st = "returned"
    /\ runs[r].calls["contrarian"].st = "raised"
    /\ responses = <<>>

\* the messages a failed run can answer with: that of a call that raised,
\* of a prompt file that is missing, or of the memo that is missing
FailureMessages(run) ==
  {run.calls[p].value.message : p \in {q \in AllPersonas : run.calls[q].st = "raised"}}
    \cup {<<"E", "N", "O", "E", "N", "T">>, <<"N", "o", " ", "m", "e", "m", "o">>}

\* C25: a run request is answered exactly once, when the run ends: with 200
\* and the full result (status complete, the secretary's, the 4 reviewers'
\* and the strategist's outcome), or with 500 and the message of one
\* underlying error; an answer once given never changes
C25_OneTerminalOutcome ==
  /\ [](\A r \in RunIds :
          LET run == runs[r] IN
          /\ run.http # JsUndefined <=> run.pc \in {"returned", "raised"}
          /\ run.pc = "returned" =>
               /\ run.http.status = 200
               /\ run.http.body.kind = "result"
               /\ run.http.body.status = "complete"
               /\ run.http.body.secretary.kind = "outcome"
               /\ Len(run.http.body.board) = 4
               /\ \A i \in 1..4 : run.http.body.board[i].result.kind = "outcome"
               /\ run.http.body.strategist.kind = "outcome"
               /\ run.http.body.totalTokens \in Nat
          /\ run.pc = "raised" =>
               /\ run.http.status = 500
               /\ DOMAIN run.http.body = {"error"}
               /\ run.http.body.error \in FailureMessages(run))
  /\ [][\A r \in RunIds :
          runs[r].http # JsUndefined => runs'[r].http = runs[r].http]_vars

\* two reviewers of a failed run failed with different errors
C25_Witness ==
  \E r \in RunIds :
    /\ runs[r].pc = "raised"
    /\ runs[r].calls["operator"].st = "raised"
    /\ runs[r].calls["finance"].st = "raised"
    /\ runs[r].calls["operator"].value # runs[r].calls["finance"].value
    /\ runs[r].http.status = 500

\* C28: a missing prompt file is found at start-up: on a server that lacks
\* a prompt file no run ever issues a provider call
C28_MissingPromptBeforeAnyCall ==
  \A r \in RunIds :
    prompts # AllPersonas => \A p \in AllPersonas : runs[r].calls[p].st = "none"

Probed(fn) == probe.fn = fn /\ probe.result # JsUndefined

\* the heading of the block of the i-th reviewer
Headings == <<"OPERATOR", "FINANCE", "CRAFT-EXPERT", "CONTRARIAN">>

\* the lines of text that follow its line number i, n of them
LinesAfter(text, i, n) == SubSeq(text, i + 1, i + n)

\* C15: formatSynthesisInput renders position, top reasons, top risks and
\* confidence of a reviewer whose parsed is null as "N/A", and returns a
\* text for every combination of null and non-null parsed outputs
C15_NullParsedRendersNA ==
  Probed("formatSynthesisInput") =>
    /\ probe.result.kind = "rendered"
    /\ \A i \in 1..4 :
         probe.boardResults[i].result.parsed = JsNull =>
           \E h \in 1..Len(probe.result.text) :
             /\ probe.result.text[h] = <<"### ", Headings[i]>>
             /\ LinesAfter(probe.result.text, h, 4) =
                  << <<"- **Position:** ", "N/A">>,
                     <<"- **Top Reasons:** ", "N/A">>,
                     <<"- **Top Risks:** ", "N/A">>,
                     <<"- **Confidence:** ", "N/A">> >>

\* the override configured for a persona: a property of reasoningOverrides
Configured(client, personaId) == personaId \in DOMAIN client.reasoningOverrides \ {"kind"}

\* C26: getReasoningEffort returns the override configured for the persona
\* and the default of the client when there is none; the effort complete()
\* sends is options.reasoningEffort when given, else the override of
\* options.personaId when configured, else the default of the client
C26_EffortResolution ==
  /\ Probed("getReasoningEffort") =>
       probe.result =
         IF Configured(probe.client, probe.personaId)
           THEN probe.client.reasoningOverrides[probe.personaId]
           ELSE probe.client.reasoningEffort
  /\ Probed("complete") =>
       probe.result.reasoning.effort =
         IF probe.options.reasoningEffort # JsUndefined
           THEN probe.options.reasoningEffort
         ELSE IF probe.options.personaId # JsUndefined
                   /\ Configured(probe.client, probe.options.personaId.v)
           THEN probe.client.reasoningOverrides[probe.options.personaId.v]
         ELSE probe.client.reasoningEffort

\* a request made with an explicit effort for a persona that has an override
C26_Witness ==
  /\ Probed("complete")
  /\ probe.options.reasoningEffort = Str("minimal")
  /\ probe.options.personaId = Str("strategist")
  /\ Configured(probe.client, "strategist")
  /\ probe.client.reasoningOverrides.strategist = Str("xhigh")
  /\ probe.result.reasoning.effort = Str("minimal")

\* a usage counter as the claim reads it: its value when present, else 0
CounterOrZero(usage, name) ==
  IF usage.kind = "object" /\ usage[name].kind = "number" THEN usage[name].v ELSE 0

\* C16: each of the input, output, reasoning and total counts of an outcome
\* is a natural number, equal to the counter of the response when that is
\* present and 0 when the counter, or the whole usage, is absent
C16_TokenCounts ==
  Probed("parseResponse") =>
    LET usage == probe.data.usage
        tokens == probe.result.tokens
    IN /\ \A n \in {"input", "output", "reasoning", "total"} : tokens[n] \in Nat
       /\ tokens.input = CounterOrZero(usage, "input_tokens")
       /\ tokens.output = CounterOrZero(usage, "output_tokens")
       /\ tokens.total = CounterOrZero(usage, "total_tokens")
       /\ tokens.reasoning =
            IF usage.kind = "object"
              THEN CounterOrZero(usage.output_tokens_details, "reasoning_tokens")
              ELSE 0

\* a response that reports reasoning and total tokens but no input count
C16_Witness ==
  /\ Probed("parseResponse")
  /\ probe.data.usage.kind = "object"
  /\ probe.data.usage.input_tokens = JsUndefined
  /\ probe.result.tokens = [input |-> 0, output |-> 2, reasoning |-> 4, total |-> 7]

\* the indices of the code blocks of doc, and of those labelled json
BlocksOf(doc) == {i \in 1..Len(doc) : doc[i].kind = "block"}
JsonBlocksOf(doc) == {i \in BlocksOf(doc) : doc[i].label = <<"j", "s", "o", "n">>}
First(indices) == CHOOSE i \in indices : \A j \in indices : i <= j

\* the JSON candidate of highest priority in doc: the content of the first
\* block labelled json, else of the first block, else the whole text
Candidate(doc) ==
  IF JsonBlocksOf(doc) # {} THEN doc[First(JsonBlocksOf(doc))].content
  ELSE IF BlocksOf(doc) # {} THEN doc[First(BlocksOf(doc))].content
  ELSE DocText(doc)

\* the value of a candidate: null when it is not JSON
ValueOf(text) ==
  LET v == JsonParse(TrimText(text)) IN IF v.kind = "error" THEN JsNull ELSE v

\* C17: with a schema, parsed is the value of the candidate of highest
\* priority: the content of a block labelled json, else the content of a
\* block of any language, labelled or not, else the trimmed whole text
C17_JsonLocationPriority ==
  \A doc \in Docs :
    ( /\ Probed("parseResponse")
      /\ probe.expectJson
      /\ probe.data = OkData(DocText(doc), JsUndefined) )
      => probe.result.parsed = ValueOf(Candidate(doc))

RECURSIVE ConcatAll(_)
\* the concatenation of a sequence of texts
ConcatAll(texts) ==
  IF texts = <<>> THEN <<>>
  ELSE ConcatAll(SubSeq(texts, 1, Len(texts) - 1)) \o texts[Len(texts)]

\* the textual segments of an item of the output array, in order
SegmentsOf(item) ==
  IF item.type = "message" /\ item.content.kind = "array"
    THEN [j \in 1..Len(item.content.v) |->
            LET block == item.content.v[j]
            IN IF block.type \in {"output_text", "text"} /\ block.text.kind = "text"
                 THEN block.text.v ELSE <<>>]
    ELSE <<>>

\* C18: raw is output_text when that is present and not empty; otherwise it
\* is the concatenation, in order, of the text of every block of type
\* output_text or text of every message item of the output array
C18_TextExtraction ==
  Probed("parseResponse") =>
    LET data == probe.data
        given == data.output_text.kind = "text" /\ data.output_text.v # <<>>
    IN probe.result.raw =
         IF given THEN data.output_text.v
         ELSE IF data.output.kind = "array"
           THEN ConcatAll([i \in 1..Len(data.output.v) |->
                             ConcatAll(SegmentsOf(data.output.v[i]))])
           ELSE <<>>

\* an empty output_text, and an output array of a reasoning item and a
\* message whose first block is a refusal
C18_Witness ==
  /\ Probed("parseResponse")
  /\ probe.data.output_text = Txt(<<>>)
  /\ probe.data.output.kind = "array"
  /\ Len(probe.data.output.v) = 2
  /\ probe.data.output.v[1].type = "reasoning"
  /\ probe.data.output.v[2].content.kind = "array"
  /\ probe.data.output.v[2].content.v[1].type = "refusal"
  /\ probe.result.raw = <<"[", "]">>

\* the headings of the memo text, in the order of the template
MemoHeadings ==
  << <<"## Board Memo">>, <<"### Context">>, <<"### Decision Required">>,
     <<"### Options">>, <<"### Constraints">>, <<"### Success Metrics">>,
     <<"### Questions for the Board">> >>

\* the line of text that follows the line heading
LineAfter(text, heading) ==
  LET at == {i \in 1..Len(text) : text[i] = heading}
  IN IF at = {} \/ First(at) = Len(text) THEN <<>> ELSE text[First(at) + 1]

\* C19: formatMemoForPrompt renders the sections context, decision required,
\* options, constraints, success metrics and questions in that order, and
\* renders every absent constraint and every empty list as "Not specified"
C19_MissingFieldsNotSpecified ==
  Probed("formatMemoForPrompt") =>
    LET memo == probe.memo
        text == probe.result.text
        Absent(name) == name \notin DOMAIN memo.constraints
                          \/ memo.constraints[name] = JsUndefined
        HasLine(line) == \E i \in 1..Len(text) : text[i] = line
    IN /\ SelectSeq(text, LAMBDA line : \E i \in 1..7 : line = MemoHeadings[i])
            = MemoHeadings
       /\ Absent("time") => HasLine(<<"- Time: ", "Not specified">>)
       /\ Absent("budget") => HasLine(<<"- Budget: ", "Not specified">>)
       /\ Absent("risk_tolerance") => HasLine(<<"- Risk Tolerance: ", "Not specified">>)
       /\ Absent("politics")
            => HasLine(<<"- Political considerations: ", "Not specified">>)
       /\ memo.context.v = <<>>
            => LineAfter(text, <<"### Context">>) = <<"Not specified">>
       /\ memo.options.v = <<>>
            => LineAfter(text, <<"### Options">>) = <<"Not specified">>
       /\ memo.success_metrics.v = <<>>
            => LineAfter(text, <<"### Success Metrics">>) = <<"Not specified">>
       /\ memo.questions_for_board.v = <<>>
            => LineAfter(text, <<"### Questions for the Board">>) = <<"Not specified">>

(***************************************************************************)
(* Claims about the memo snapshot of a run and about runs of two sessions. *)
(***************************************************************************)
\* the user message of a call that has been issued for persona p
Issued(run, p) == run.calls[p].st # "none"

\* the lines of a synthesis input between the heading of the original memo
\* and the rule that ends it
MemoPart(input) ==
  LET rules == {i \in 1..Len(input) : input[i] = <<"---">>}
  IN SubSeq(input, 2, First(rules) - 2)

\* the memo the table holds for the session of the run
CurrentMemo(run) ==
  LET memo == GetMemo(memos, run.sessionId)
  IN IF memo.kind = "undefined" THEN JsUndefined ELSE MemoData(memo.row)

\* C29: the memo a run reads when it starts is the one every call of the run
\* is given: the user message of the normalization call and of each reviewer
\* call, and the memo part of the synthesis input, are the text rendered from
\* that snapshot, and neither the snapshot nor a message changes when the
\* memo of the session is replaced while the run is suspended
C29_MemoSnapshot ==
  /\ [](\A r \in RunIds :
          LET run == runs[r]
              memoText == formatMemoForPrompt(run.memoData)
          IN /\ Issued(run, "secretary") => run.inputs["secretary"] = memoText
             /\ \A p \in BoardIds : Issued(run, p) => run.inputs[p] = memoText
             /\ Issued(run, "strategist")
                  => MemoPart(run.inputs["strategist"]) = memoText)
  /\ [][\A r \in RunIds :
          /\ runs[r].pc = "idle" /\ runs'[r].pc # "idle"
               => runs'[r].memoData = CurrentMemo(runs'[r])
          /\ runs[r].pc # "idle" => runs'[r].memoData = runs[r].memoData
          /\ \A p \in AllPersonas :
               Issued(runs[r], p) => runs'[r].inputs[p] = runs[r].inputs[p]]_vars

\* the run finished on the first memo after the session's memo was replaced
\* by the revised one
C29_Witness ==
  \E r \in RunIds :
    /\ runs[r].pc = "returned"
    /\ runs[r].memoData = MemoData(MemoRow("A", FirstMemo))
    /\ CurrentMemo(runs[r]) = MemoData(MemoRow("A", RevisedMemo))
    /\ CurrentMemo(runs[r]) # runs[r].memoData
    /\ formatMemoForPrompt(CurrentMemo(runs[r])) # runs[r].inputs["operator"]

\* the rows of the responses table that carry session id s
RowsOf(s) == SelectSeq(responses, LAMBDA row : row.session_id = s)

\* the personas whose rows a run has written, given only what its own calls
\* settled with: the four reviewers once all of them returned, then the
\* strategist once it returned
Written(run) ==
  (IF \A p \in BoardIds : run.calls[p].st = "returned" THEN Board ELSE <<>>)
    \o (IF run.calls["strategist"].st = "returned" THEN <<"strategist">> ELSE <<>>)

\* C24: two runs on two sessions do not interfere: every row carries the
\* session id of the run that wrote it, and the rows, the status and the
\* result of each session are those its own run produces from the answers
\* to its own calls, whatever the other run does in between
C24_RunsDoNotInterfere ==
  /\ Len(RowsOf("A")) + Len(RowsOf("B")) = Len(responses)
  /\ \A r \in BothRuns :
       LET run == runs[r]
           s == SessionOf(r)
           rows == RowsOf(s)
           written == Written(run)
       IN /\ run.pc # "idle" => run.sessionId = s
          /\ Len(rows) = Len(written)
          /\ \A i \in 1..Len(rows) :
               /\ rows[i].persona_id = written[i]
               /\ rows[i].raw_analysis = run.calls[written[i]].value.raw
               /\ rows[i].tokens_used = run.calls[written[i]].value.tokens.total
          /\ sessions[s] = CASE run.pc = "idle" -> "draft"
                              [] run.pc = "returned" -> "complete"
                              [] OTHER -> "running"
          /\ run.pc = "returned"
               => /\ run.http.status = 200
                  /\ run.http.body.sessionId = s
                  /\ run.http.body.secretary = run.calls["secretary"].value
                  /\ \A i \in 1..Len(Board) :
                       run.http.body.board[i].result = run.calls[Board[i]].value
                  /\ run.http.body.strategist = run.calls["strategist"].value
          /\ run.pc = "raised"
               => /\ run.http.status = 500
                  /\ \E p \in AllPersonas :
                       /\ run.calls[p].st = "raised"
                       /\ run.http.body.error = run.calls[p].value.message

\* the run on B saved its board between the board and the synthesis of the
\* run on A; the run on A completed and the run on B failed at its synthesis
C24_Witness ==
  /\ Len(responses) = 9
  /\ responses[4].session_id = "A"
  /\ responses[5].session_id = "B"
  /\ responses[9].session_id = "A"
  /\ responses[1].raw_analysis # responses[5].raw_analysis
  /\ runs[1].pc = "returned"
  /\ runs[2].pc = "raised"
  /\ sessions["A"] = "complete"
  /\ sessions["B"] = "running"

(***************************************************************************)
(* Claims about the order and the presence of the rows of a run.           *)
(***************************************************************************)
\* the lines of a synthesis input that head a reviewer block, in their order
ReviewerHeadings(text) ==
  SelectSeq(text, LAMBDA line :
    \E p \in BoardIds : line = <<"### ", ToUpperCase(p)>>)

\* C31: the reviewer outcomes of the returned result, the reviewer blocks of
\* the synthesis input and the reviewer rows are in the order operator,
\* finance, craft-expert, contrarian, each outcome and row being that of its
\* own persona, whatever the order in which the reviewer calls completed
C31_PersonaOrder ==
  \A r \in RunIds :
    LET run == runs[r] IN
    /\ run.calls["strategist"].st # "none"
         => /\ ReviewerHeadings(run.inputs["strategist"])
                 = << <<"### ", "OPERATOR">>, <<"### ", "FINANCE">>,
                      <<"### ", "CRAFT-EXPERT">>, <<"### ", "CONTRARIAN">> >>
            /\ Len(responses) >= 4
            /\ \A i \in 1..4 :
                 /\ responses[i].persona_id
                      = <<"operator", "finance", "craft-expert", "contrarian">>[i]
                 /\ responses[i].raw_analysis = run.calls[responses[i].persona_id].value.raw
                 /\ responses[i].tokens_used
                      = run.calls[responses[i].persona_id].value.tokens.total
    /\ run.pc = "returned"
         => /\ Len(run.http.body.board) = 4
            /\ \A i \in 1..4 :
                 /\ run.http.body.board[i].persona
                      = <<"operator", "finance", "craft-expert", "contrarian">>[i]
                 /\ run.http.body.board[i].result
                      = run.calls[run.http.body.board[i].persona].value

\* a run returned whose reviewers answered differently, so that every
\* position of the result and of the rows shows whose outcome it holds
C31_Witness ==
  \E r \in RunIds :
    /\ runs[r].pc = "returned"
    /\ runs[r].calls["operator"].value.parsed = JsNull
    /\ runs[r].calls["finance"].value.parsed # JsNull
    /\ runs[r].calls["craft-expert"].value.parsed = JsNull
    /\ runs[r].calls["contrarian"].value.parsed # JsNull
    /\ responses[1].raw_analysis # responses[2].raw_analysis
    /\ responses[3].tokens_used # responses[4].tokens_used

\* C32: a run one of whose reviewer calls failed terminally has written no
\* response row, not even for the reviewers whose calls succeeded
C32_ReviewerFailureWritesNoRow ==
  \A r \in RunIds :
    (\E p \in BoardIds : runs[r].calls[p].st = "raised") => responses = <<>>

\* finance failed after its retries with the provider down, the operator
\* and the contrarian succeeded, and the table is empty
C32_Witness ==
  \E r \in RunIds :
    /\ prompts = AllPersonas
    /\ runs[r].calls["finance"].st = "raised"
    /\ runs[r].calls["finance"].value.kind = "error"
    /\ runs[r].calls["operator"].st = "returned"
    /\ runs[r].calls["contrarian"].st = "returned"
    /\ runs[r].pc = "raised"
    /\ responses = <<>>

\* C33: whenever the status of a session is complete, the 4 reviewer rows
\* and the strategist row of the run that set it are in the responses table
C33_CompleteImpliesRows ==
  \A r \in RunIds :
    (runs[r].sessionId \in SessionIds /\ sessions[runs[r].sessionId] = "complete")
      => /\ \A p \in BoardIds \cup {"strategist"} :
              \E i \in 1..Len(responses) :
                /\ responses[i].session_id = runs[r].sessionId
                /\ responses[i].persona_id = p
                /\ responses[i].raw_analysis = runs[r].calls[p].value.raw
         /\ runs[r].pc = "returned"

\* the session is complete and holds the five rows of its run
C33_Witness ==
  \E r \in RunIds :
    /\ runs[r].sessionId \in SessionIds
    /\ sessions[runs[r].sessionId] = "complete"
    /\ Len(responses) = 5
    /\ responses[5].persona_id = "strategist"
    /\ responses[5].session_id = runs[r].sessionId

\* the memo rows of session s
MemoRowsOf(s) == SelectSeq(memos, LAMBDA row : row.session_id = s)

\* the memo a run would read from row holds what body held, property by
\* property, a list or object that was absent reading as an empty one
HoldsContent(row, body) ==
  LET memo == MemoData(row) IN
  /\ memo.decision_required = Get(body, "decision_required")
  /\ memo.context = Or(Get(body, "context"), Arr(<<>>))
  /\ memo.options = Or(Get(body, "options"), Arr(<<>>))
  /\ memo.constraints = Or(Get(body, "constraints"), EmptyObject)
  /\ memo.success_metrics = Or(Get(body, "success_metrics"), Arr(<<>>))
  /\ memo.questions_for_board = Or(Get(body, "questions_for_board"), Arr(<<>>))

\* C34: whatever save-memo requests and runs have been served, a session has
\* at most one memo row, the row it has holds the content of the most recent
\* save-memo request, and no step of a run changes the memos table
C34_OneMemoMostRecent ==
  /\ [](/\ \A s \in SessionIds : Len(MemoRowsOf(s)) <= 1
        /\ probe.fn = "saveMemo"
             => \A i \in 1..Len(memos) :
                  memos[i].session_id = probe.session
                    => HoldsContent(memos[i], probe.memo))
  /\ [][runs' # runs => memos' = memos]_vars

\* the revised memo was posted while the reviewers of a run on the first
\* memo were at work, and it is the one row of the session
C34_Witness ==
  \E r \in RunIds :
    /\ runs[r].pc = "review"
    /\ runs[r].memoData = MemoData(MemoRow("A", FirstMemo))
    /\ probe = MemoRequest("A", RevisedMemo, 200)
    /\ Len(memos) = 1
    /\ MemoData(memos[1]) = MemoData(MemoRow("A", RevisedMemo))
    /\ MemoData(memos[1]) # runs[r].memoData

(***************************************************************************)
(* Claims about the attempts a call and a run may make.                    *)
(***************************************************************************)
\* C38: completeWithRetry called with maxRetries 0 issues no provider call
\* and rejects with no error value; called with a budget of at least one
\* attempt it has issued a provider call by the time it returns or rejects
C38_ZeroRetriesRejectsUndefined ==
  /\ (harness.maxRetries = Num(0) /\ w.st # "none")
       => /\ w.st = "raised"
          /\ w.value = JsUndefined
          /\ invoked = 0
          /\ sleeps = <<>>
  /\ (Retries >= 1 /\ Settled(w)) => invoked >= 1

\* the wrapper was called with maxRetries 0 on a client configured for three
\* attempts, against a provider that would have answered
C38_Witness ==
  /\ harness.maxRetries = Num(0)
  /\ retryAttempts = 3
  /\ harness.stub[1].kind = "ok"
  /\ w = Raised(JsUndefined)
  /\ invoked = 0

\* C36: a run on a session without a memo fails with its first step, before
\* any provider call is issued and before any row is written; its only change
\* to the database is the status of the session, set to running, and nothing
\* it does later changes that
C36_NoMemoFailsFirst ==
  /\ [](\A r \in RunIds :
          runs[r].outcome = NoMemoError
            => /\ runs[r].pc = "raised"
               /\ \A p \in AllPersonas : runs[r].calls[p].st = "none"
               /\ runs[r].http = [status |-> 500, body |-> [error |-> NoMemoError.message]]
               /\ responses = <<>>)
  /\ [][\A r \in RunIds :
          (runs[r].pc = "idle" /\ runs'[r].pc # "idle"
             /\ \A i \in 1..Len(memos) : memos[i].session_id # runs'[r].sessionId)
            => /\ runs'[r].outcome = NoMemoError
               /\ responses' = responses
               /\ memos' = memos
               /\ sessions' = [t \in DOMAIN sessions |->
                                IF t = runs'[r].sessionId /\ sessions[t] # "none"
                                  THEN "running" ELSE sessions[t]]]_vars

\* the run was requested for a session that exists and has no memo
C36_Witness ==
  \E r \in RunIds :
    /\ runs[r].outcome = NoMemoError
    /\ runs[r].sessionId = "A"
    /\ sessions["A"] = "running"
    /\ memos = <<>>
    /\ responses = <<>>

(***************************************************************************)
(* Claims about a session that is run twice.                               *)
(***************************************************************************)
\* the rows that hold the text the provider answers run r with
RowsAnswering(r) ==
  SelectSeq(responses, LAMBDA row :
    row.raw_analysis = IF r = 1 THEN ObjectText ELSE PlainText)

\* C35: runs only insert into responses: every step leaves the rows there
\* were in place and unchanged, and when a session is run twice, one run
\* after or during the other, each run adds its own rows next to those of
\* the other
C35_RunsOnlyInsert ==
  /\ [](/\ \A r \in BothRuns :
             [i \in 1..Len(RowsAnswering(r)) |-> RowsAnswering(r)[i].persona_id]
               = Written(runs[r])
        /\ Len(responses) = Len(Written(runs[1])) + Len(Written(runs[2]))
        /\ \A i \in 1..Len(responses) : responses[i].session_id = "A")
  /\ [][/\ Len(responses') >= Len(responses)
        /\ SubSeq(responses', 1, Len(responses)) = responses]_vars

\* both runs of the session completed, the second having saved its board
\* and its synthesis between the board and the synthesis of the first
C35_Witness ==
  /\ runs[1].pc = "returned"
  /\ runs[2].pc = "returned"
  /\ runs[1].sessionId = runs[2].sessionId
  /\ Len(responses) = 10
  /\ responses[4].raw_analysis = ObjectText
  /\ responses[5].raw_analysis = PlainText
  /\ responses[9].raw_analysis = PlainText
  /\ responses[10].raw_analysis = ObjectText
  /\ responses[10].persona_id = "strategist"

\* C37: every run that was started returns or raises in the end, and the
\* provider calls issued for it, those of reviewers that go on after the run
\* has failed included, never number more than 6 times the attempts allowed
\* per call
C37_TerminationAndBudget ==
  /\ [](invoked <= 6 * retryAttempts)
  /\ \A r \in RunIds :
       (runs[r].pc # "idle") ~> (runs[r].pc \in {"returned", "raised"})

\* a run returned after each of its six calls had used its last attempt
C37_Witness ==
  \E r \in RunIds :
    /\ runs[r].pc = "returned"
    /\ retryAttempts >= 2
    /\ invoked = 6 * retryAttempts

====
